---------------------------- MODULE Spec2Model ----------------------------
(***************************************************************************)
(* Model of the chess engine core of ChessCpp: the alpha-beta search of    *)
(* test.cpp (find_best_move, Minimax, QuiescenceSearch and the global      *)
(* transposition_table) and the static evaluator of Eval.hpp.              *)
(*                                                                         *)
(* The rules library (chess.hpp: legal moves, make/unmake, hash, game-over *)
(* detection, attack tables) is an external collaborator.  The search is   *)
(* modelled over a finite game graph that stands for it; the evaluator is  *)
(* modelled over real 8x8 piece placements.                                *)
(***************************************************************************)
EXTENDS Integers, Sequences, FiniteSets, TLC

VARIABLES
    root,                 \* the position handed to find_best_move
    hval,                 \* heuristic static score of each non-terminal position
    max_depth,            \* find_best_move's max_depth argument
    color,                \* find_best_move's color argument (= side to move at root)
    data,                 \* chess::Board &data: the stack of positions made so far
    transposition_table,  \* the global std::unordered_map of test.cpp:59
    rets,                 \* the moves returned by the calls so far, oldest first
    last,                 \* what the last call did (its iterations and counters)
    evaluation,           \* an Evaluation object: its board, side and accumulators
    scores,               \* what static_eval returned on this object, oldest first
    twin,                 \* the first score of the board this one is the mirror of
    operand,              \* a chess::Bitboard handed to a function of namespace BitOp
    observed              \* the last helper call on its own: its name, arguments, result

search_vars == <<root, hval, max_depth, color, data, transposition_table, rets, last>>

eval_vars == <<evaluation, scores, twin>>

helper_vars == <<operand, observed>>

vars == <<search_vars, eval_vars, helper_vars>>

---------------------------------------------------------------------------
(* Bounds of the model *)

MaxDepth == 3
MaxCalls == 2
MaxEvalCalls == 2
MaxExtraPieces == 2
MaxBits == 2
MaxPerKind == 2
MaxPawns == 3
MaxExchangePieces == 4

---------------------------------------------------------------------------
(* Program constants *)

\* std::numeric_limits<int>::infinity(): int has no infinity, the call yields int() = 0
Inf == 0
\* the win/loss sentinel of Evaluation::static_eval
MateScore == 99999
\* chess::Move best_move; is default-constructed: the null move, never a legal move
NoMove == 0

WHITE == "WHITE"
BLACK == "BLACK"
Other(c) == IF c = WHITE THEN BLACK ELSE WHITE

Max(a, b) == IF a >= b THEN a ELSE b
Min(a, b) == IF a <= b THEN a ELSE b

---------------------------------------------------------------------------
(* The rules capability over a finite game graph.  A position is a number, *)
(* a move is the number of the position it leads to.                       *)

Positions == 1..12
RootPositions == {1, 12}

legalmoves(p) ==
    CASE p = 1  -> <<2, 3, 4>>
      [] p = 2  -> <<5, 6>>
      [] p = 3  -> <<6, 7>>
      [] p = 4  -> <<7, 8>>
      [] p = 5  -> <<9, 10>>
      [] p = 6  -> <<10, 11>>
      [] p = 7  -> <<11>>
      [] p = 12 -> <<2>>
      [] OTHER  -> <<>>

Layer(p) ==
    CASE p \in {1, 12}      -> 0
      [] p \in {2, 3, 4}    -> 1
      [] p \in {5, 6, 7, 8} -> 2
      [] OTHER              -> 3

\* data.isGameOver().second: the result for the side to move
isGameOver(p) ==
    CASE p \in {8, 9, 11} -> "LOSE"
      [] p = 10           -> "DRAW"
      [] OTHER            -> "NONE"

NonTerminal == {p \in Positions : isGameOver(p) = "NONE"}

\* data.sideToMove(): the sides alternate from the root
sideToMove(p) == IF Layer(p) % 2 = 0 THEN color ELSE Other(color)

\* data.hash(): the Zobrist key identifies the position
hash(p) == p

\* data.isCapture(move) || move.typeOf() == PROMOTION, by <<from, to>>
CapturesAndPromotions == {<<1, 3>>, <<2, 6>>, <<5, 10>>, <<4, 7>>}
\* new_board.inCheck() after the move: every mating move gives check
inCheck(p) == p \in {8, 9, 11, 5}

Top(board) == board[Len(board)]
makeMove(board, move) == Append(board, move)
unmakeMove(board, move) == SubSeq(board, 1, Len(board) - 1)

---------------------------------------------------------------------------
(* Evaluation::static_eval, Eval.hpp:842-857: the switch on the game       *)
(* result.  heuristic is the sum computed in the NONE case.                *)

\* the switch with the LOSE case answering as the WIN case does
static_eval_switch_lose_as_win(result, side, heuristic) ==
    CASE result = "NONE" -> heuristic
      [] result = "DRAW" -> 0
      [] OTHER           -> IF side = BLACK THEN -MateScore ELSE MateScore
static_eval_switch(result, side, heuristic) ==
    CASE result = "NONE" -> heuristic
      [] result = "WIN"  -> IF side = BLACK THEN -MateScore ELSE MateScore
      [] result = "LOSE" -> IF side = BLACK THEN MateScore ELSE -MateScore
      [] result = "DRAW" -> 0
      [] OTHER           -> 0

\* Evaluation(data, data.sideToMove()).static_eval() on a position of the graph
static_eval_at(p) ==
    static_eval_switch(isGameOver(p), sideToMove(p),
                       IF p \in DOMAIN hval THEN hval[p] ELSE 0)

---------------------------------------------------------------------------
(* The search state threaded through the recursion: the board, the global  *)
(* table, and counters of what the search did.                             *)

Bump(st, f) == [st EXCEPT ![f] = @ + 1]
Make(st, move) == [Bump(st, "makes") EXCEPT !.data = makeMove(@, move)]
\* an unmake that leaves the board as it is
UnmakeNoop(st, move) == Bump(st, "unmakes")
\* data.unmakeMove(move)
Unmake(st, move) == [Bump(st, "unmakes") EXCEPT !.data = unmakeMove(@, move)]

\* a put that leaves an entry searched at least as deep where it is
StoreUnlessDeeper(tt, h, entry) ==
    IF h \in DOMAIN tt /\ tt[h].depth >= entry.depth THEN tt
    ELSE [k \in DOMAIN tt \cup {h} |-> IF k = h THEN entry ELSE tt[k]]
\* transposition_table[hash] = {value, depth, is_exact};
Store(tt, h, entry) == [k \in DOMAIN tt \cup {h} |-> IF k = h THEN entry ELSE tt[k]]

\* the assignment to the table, and its place in the order of the stores
\* held is the entry the key had before (if any), now the entry read back
\* after the assignment, lost the keys the assignment removed
Put(st, h, entry) ==
    LET table == Store(st.tt, h, entry)
    IN [st EXCEPT !.tt = table,
                  !.stores = Append(@, [h |-> h, entry |-> entry,
                                        held |-> IF h \in DOMAIN st.tt THEN <<st.tt[h]>>
                                                 ELSE <<>>,
                                        now |-> table[h],
                                        lost |-> DOMAIN st.tt \ DOMAIN table])]
\* the node of hash h has gone into the loop over its moves
Expanded(st, f, h) == [st EXCEPT ![f] = @ \cup {h}]
\* a call of fn has been entered on the board of st with these arguments
\* (QuiescenceSearch takes no depth: 0)
Entered(st, fn, depth, alpha, beta, maximizing_player) ==
    [st EXCEPT !.entered = Append(@, [fn |-> fn, p |-> Top(st.data),
                                      ply |-> Len(st.data), depth |-> depth,
                                      alpha |-> alpha, beta |-> beta,
                                      maximizing_player |-> maximizing_player])]
\* Minimax has probed the table for h at depth and found an entry
Probed(st, h, depth, hit) ==
    [st EXCEPT !.probes = @ \cup {[h |-> h, have |-> st.tt[h].depth, want |-> depth,
                                   hit |-> hit]}]

\* a selection that takes every legal move for a noisy one
generate_noisy_moves_all(moves, p) == moves

\* a selection that keeps the captures and promotions and tests no move for check
RECURSIVE generate_noisy_moves_no_check(_, _)
generate_noisy_moves_no_check(moves, p) ==
    IF moves = <<>> THEN <<>>
    ELSE IF <<p, Head(moves)>> \in CapturesAndPromotions
    THEN <<Head(moves)>> \o generate_noisy_moves_no_check(Tail(moves), p)
    ELSE generate_noisy_moves_no_check(Tail(moves), p)

\* generate_noisy_moves, test.cpp:62-76
RECURSIVE generate_noisy_moves(_, _)
generate_noisy_moves(moves, p) ==
    IF moves = <<>> THEN <<>>
    ELSE LET move == Head(moves)
             rest == generate_noisy_moves(Tail(moves), p)
         IN IF <<p, move>> \in CapturesAndPromotions THEN <<move>> \o rest
            ELSE IF inCheck(move) THEN <<move>> \o rest
            ELSE rest

\* the cache probe of QuiescenceSearch, test.cpp:88-93
QuiescenceProbeHit(tt, h, alpha, beta, maximizing_player) ==
    /\ h \in DOMAIN tt
    /\ \/ tt[h].is_exact
       \/ maximizing_player /\ tt[h].value <= alpha
       \/ ~maximizing_player /\ tt[h].value >= beta

\* a stand-pat step that leaves the window as it came in
StandPatWindow_unchanged(alpha, beta, stand_pat, maximizing_player) ==
    [alpha |-> alpha, beta |-> beta]
\* alpha = std::max(alpha, stand_pat); / beta = std::min(beta, stand_pat);
\* test.cpp:99, 104
StandPatWindow(alpha, beta, stand_pat, maximizing_player) ==
    [alpha |-> IF maximizing_player THEN Max(alpha, stand_pat) ELSE alpha,
     beta |-> IF maximizing_player THEN beta ELSE Min(beta, stand_pat)]

RECURSIVE QuiescenceSearch(_, _, _, _)
RECURSIVE QuiescenceLoop(_, _, _, _, _, _, _)

\* the loops of test.cpp:115-139 from move i on; best is max_eval / min_eval
QuiescenceLoop(st, noisy_moves, i, alpha, beta, best, maximizing_player) ==
    IF i > Len(noisy_moves) THEN [val |-> best, st |-> st]
    ELSE LET move == noisy_moves[i]
             r == QuiescenceSearch(Make(st, move), alpha, beta, ~maximizing_player)
             st2 == Unmake(r.st, move)
             eval == r.val
         IN IF maximizing_player
            THEN LET max_eval == Max(best, eval)
                     a == Max(alpha, eval)
                 IN IF a >= beta THEN [val |-> max_eval, st |-> Bump(st2, "cutoffs")]
                    ELSE QuiescenceLoop(st2, noisy_moves, i + 1, a, beta, max_eval, TRUE)
            ELSE LET min_eval == Min(best, eval)
                     b == Min(beta, eval)
                 IN IF alpha >= b THEN [val |-> min_eval, st |-> Bump(st2, "cutoffs")]
                    ELSE QuiescenceLoop(st2, noisy_moves, i + 1, alpha, b, min_eval, FALSE)

\* QuiescenceSearch, test.cpp:79-140
QuiescenceSearch(st0, alpha, beta, maximizing_player) ==
    LET st == Entered(st0, "QuiescenceSearch", 0, alpha, beta, maximizing_player)
        p == Top(st.data)
        stand_pat == static_eval_at(p)
    IN IF isGameOver(p) # "NONE" THEN [val |-> stand_pat, st |-> st]
       ELSE IF QuiescenceProbeHit(st.tt, hash(p), alpha, beta, maximizing_player)
       THEN [val |-> st.tt[hash(p)].value, st |-> Bump(st, "hits")]
       ELSE IF maximizing_player /\ stand_pat >= beta
       THEN [val |-> stand_pat, st |-> Bump(st, "standpats")]
       ELSE IF ~maximizing_player /\ stand_pat <= alpha
       THEN [val |-> stand_pat, st |-> Bump(st, "standpats")]
       ELSE LET a == StandPatWindow(alpha, beta, stand_pat, maximizing_player).alpha
                b == StandPatWindow(alpha, beta, stand_pat, maximizing_player).beta
                noisy_moves == generate_noisy_moves(legalmoves(p), p)
            IN IF noisy_moves = <<>> THEN [val |-> stand_pat, st |-> st]
               ELSE QuiescenceLoop(Expanded(st, "quiesced", hash(p)), noisy_moves, 1, a, b,
                                   IF maximizing_player THEN a ELSE b,
                                   maximizing_player)

---------------------------------------------------------------------------
(* Minimax, test.cpp:142-204 *)

\* a probe that takes an entry whatever the depth it was searched to
MinimaxProbeHit_any_depth(tt, h, depth, alpha, beta, maximizing_player) ==
    /\ h \in DOMAIN tt
    /\ \/ tt[h].is_exact
       \/ maximizing_player /\ tt[h].value <= alpha
       \/ ~maximizing_player /\ tt[h].value >= beta

\* the cache probe of Minimax, test.cpp:150-157
MinimaxProbeHit(tt, h, depth, alpha, beta, maximizing_player) ==
    /\ h \in DOMAIN tt
    /\ tt[h].depth >= depth
    /\ \/ tt[h].is_exact
       \/ maximizing_player /\ tt[h].value <= alpha
       \/ ~maximizing_player /\ tt[h].value >= beta

\* a comparison that puts the lower evaluation first
compareMoves_ascending(a, b) == a.eval < b.eval
\* compareMoves, test.cpp:49-51
compareMoves(a, b) == a.eval > b.eval

\* std::sort(move_evals.begin(), move_evals.end(), compareMoves) on a short
\* vector: insertion sort, an element moves only past strictly smaller ones
RECURSIVE InsertMoveEval(_, _)
InsertMoveEval(sorted, x) ==
    IF sorted = <<>> THEN <<x>>
    ELSE IF compareMoves(x, Head(sorted)) THEN <<x>> \o sorted
    ELSE <<Head(sorted)>> \o InsertMoveEval(Tail(sorted), x)

RECURSIVE SortMoveEvals(_, _)
SortMoveEvals(move_evals, sorted) ==
    IF move_evals = <<>> THEN sorted
    ELSE SortMoveEvals(Tail(move_evals), InsertMoveEval(sorted, Head(move_evals)))

\* the ordering pass of test.cpp:166-172: make, static eval, unmake
RECURSIVE OrderingPass(_, _, _, _)
OrderingPass(st, moves, i, move_evals) ==
    IF i > Len(moves) THEN [st |-> st, move_evals |-> move_evals]
    ELSE LET move == moves[i]
             st1 == Make(st, move)
             eval == static_eval_at(Top(st1.data))
         IN OrderingPass(Unmake(st1, move), moves, i + 1,
                         Append(move_evals, [move |-> move, eval |-> eval]))

RECURSIVE Minimax(_, _, _, _, _)
RECURSIVE MinimaxLoop(_, _, _, _, _, _, _, _)

\* the loops of test.cpp:177-203 from move i on; best is max_eval / min_eval.
\* The entry is stored under the hash taken at test.cpp:149.
MinimaxLoop(st, h, move_evals, i, depth, alpha, beta, best) ==
    IF i > Len(move_evals)
    THEN [val |-> best.val,
          st |-> Put(st, h, [value |-> best.val, depth |-> depth, is_exact |-> TRUE])]
    ELSE LET move == move_evals[i].move
             r == Minimax(Make(st, move), depth - 1, alpha, beta, ~best.maximizing_player)
             st2 == Unmake(r.st, move)
             eval == r.val
         IN IF best.maximizing_player
            THEN LET max_eval == Max(best.val, eval)
                     a == Max(alpha, eval)
                 IN IF beta <= a
                    THEN MinimaxLoop(Bump(st2, "cutoffs"), h, move_evals, Len(move_evals) + 1,
                                     depth, a, beta, [best EXCEPT !.val = max_eval])
                    ELSE MinimaxLoop(st2, h, move_evals, i + 1, depth, a, beta,
                                     [best EXCEPT !.val = max_eval])
            ELSE LET min_eval == Min(best.val, eval)
                     b == Min(beta, min_eval)
                 IN IF b <= alpha
                    THEN MinimaxLoop(Bump(st2, "cutoffs"), h, move_evals, Len(move_evals) + 1,
                                     depth, alpha, b, [best EXCEPT !.val = min_eval])
                    ELSE MinimaxLoop(st2, h, move_evals, i + 1, depth, alpha, b,
                                     [best EXCEPT !.val = min_eval])

Minimax(st0, depth, alpha, beta, maximizing_player) ==
    LET st1 == Entered(Bump(st0, "calls"), "Minimax", depth, alpha, beta,
                       maximizing_player)
        p == Top(st1.data)
        h == hash(p)
    IN IF depth = 0 \/ isGameOver(p) # "NONE"
       THEN QuiescenceSearch(st1, alpha, beta, maximizing_player)
       ELSE IF MinimaxProbeHit(st1.tt, h, depth, alpha, beta, maximizing_player)
       THEN [val |-> st1.tt[h].value, st |-> Probed(Bump(st1, "hits"), h, depth, TRUE)]
       ELSE LET st == IF h \in DOMAIN st1.tt THEN Probed(st1, h, depth, FALSE) ELSE st1
                moves == legalmoves(p)
            IN IF moves = <<>>
               THEN [val |-> IF maximizing_player THEN -Inf ELSE Inf, st |-> st]
               ELSE LET o == OrderingPass(st, moves, 1, <<>>)
                        move_evals == SortMoveEvals(o.move_evals, <<>>)
                    IN MinimaxLoop(Expanded(o.st, "minimaxed", h), h, move_evals, 1,
                                   depth, alpha, beta,
                                   [val |-> IF maximizing_player THEN -Inf ELSE Inf,
                                    maximizing_player |-> maximizing_player])

---------------------------------------------------------------------------
(* find_best_move, test.cpp:206-256 *)

\* the loop over the root moves, test.cpp:226-242
RECURSIVE RootLoop(_, _, _, _, _, _, _, _)
RootLoop(st, moves, i, depth, alpha, beta, best, evals) ==
    IF i > Len(moves)
    THEN [st |-> st, best_move_for_depth |-> best.move,
          best_eval_for_depth |-> best.eval, evals |-> evals, alpha |-> alpha,
          beta |-> beta]
    ELSE LET move == moves[i]
             r == Minimax(Make(st, move), depth - 1, alpha, beta,
                          IF color = WHITE THEN FALSE ELSE TRUE)
             st2 == Unmake(r.st, move)
             eval == r.val
             b2 == IF eval >= best.eval THEN [move |-> move, eval |-> eval] ELSE best
         IN RootLoop(st2, moves, i + 1, depth, Max(alpha, b2.eval), beta, b2,
                     Append(evals, eval))

\* the iterations of test.cpp:215-253 from depth on; g is the pair
\* best_move / best_eval, iters the record of the iterations run so far
\* if (moves.size() == 1) return moves[0];  test.cpp:221
SingleLegalMove(moves) == Len(moves) = 1

\* a loop that stops one iteration short: depth < max_depth
IterationsDone_one_short(depth, maxd) == depth >= maxd
\* for (int depth = 1; depth <= max_depth; ++depth): the loop is over
IterationsDone(depth, maxd) == depth > maxd

RECURSIVE DepthLoop(_, _, _, _, _)
DepthLoop(st, depth, maxd, g, iters) ==
    IF IterationsDone(depth, maxd) THEN [move |-> g.best_move, st |-> st, iters |-> iters, early |-> FALSE]
    ELSE LET moves == legalmoves(Top(st.data))
         IN IF SingleLegalMove(moves)
            THEN [move |-> moves[1], st |-> st, iters |-> iters, early |-> TRUE]
            ELSE LET initial == [alpha |-> -Inf, beta |-> Inf,
                                 best_eval_for_depth |-> -Inf]
                     r == RootLoop(st, moves, 1, depth, initial.alpha, initial.beta,
                                   [move |-> moves[1],
                                    eval |-> initial.best_eval_for_depth], <<>>)
                     g2 == IF r.best_eval_for_depth >= g.best_eval
                           THEN [best_move |-> r.best_move_for_depth,
                                 best_eval |-> r.best_eval_for_depth]
                           ELSE g
                     st2 == Put(r.st, hash(Top(r.st.data)),
                                [value |-> g2.best_eval, depth |-> depth,
                                 is_exact |-> TRUE])
                 IN DepthLoop(st2, depth + 1, maxd, g2,
                              Append(iters, [depth |-> depth, evals |-> r.evals,
                                             moves |-> moves, initial |-> initial,
                                             best_move_for_depth |-> r.best_move_for_depth,
                                             best_eval_for_depth |-> r.best_eval_for_depth,
                                             alpha |-> r.alpha, beta |-> r.beta,
                                             best_move |-> g2.best_move,
                                             best_eval |-> g2.best_eval]))

ZeroCounters ==
    [makes |-> 0, unmakes |-> 0, cutoffs |-> 0, hits |-> 0, standpats |-> 0, calls |-> 0]

\* nothing expanded, probed, stored or entered yet
EmptyTrace ==
    [minimaxed |-> {}, quiesced |-> {}, probes |-> {}, stores |-> <<>>, entered |-> <<>>]

\* int best_eval; is never assigned before test.cpp:245 reads it (the
\* assignments of lines 210 and 212 initialise shadowing locals): the value
\* read is indeterminate, any of these
IndeterminateInts == {-(MateScore + 1), 0, MateScore + 1}

FindBestMoveResult(board, tt, maxd, indeterminate) ==
    DepthLoop([data |-> board, tt |-> tt] @@ ZeroCounters @@ EmptyTrace, 1, maxd,
              [best_move |-> NoMove, best_eval |-> indeterminate], <<>>)

NoCall == [iters |-> <<>>, early |-> FALSE, before |-> <<>>, tt_before |-> <<>>,
           indeterminate |-> 0] @@ ZeroCounters @@ EmptyTrace

find_best_move(indeterminate) ==
    /\ Len(rets) < MaxCalls
    /\ \E r \in {FindBestMoveResult(data, transposition_table, max_depth, indeterminate)} :
         /\ data' = r.st.data
         /\ transposition_table' = r.st.tt
         /\ rets' = Append(rets, r.move)
         /\ last' = [iters |-> r.iters, early |-> r.early, before |-> data,
                     tt_before |-> transposition_table,
                     indeterminate |-> indeterminate,
                     makes |-> r.st.makes, unmakes |-> r.st.unmakes,
                     cutoffs |-> r.st.cutoffs, hits |-> r.st.hits,
                     standpats |-> r.st.standpats, calls |-> r.st.calls,
                     minimaxed |-> r.st.minimaxed, quiesced |-> r.st.quiesced,
                     probes |-> r.st.probes, stores |-> r.st.stores,
                     entered |-> r.st.entered]
    /\ UNCHANGED <<root, hval, max_depth, color, eval_vars, helper_vars>>


---------------------------------------------------------------------------
(* Bitboards: a chess::Bitboard is the set of its squares, square 0 = A1,  *)
(* square 63 = H8, file = s % 8, rank = s \div 8.                          *)

Squares == 0..63
FileOf(s) == s % 8
RankOf(s) == s \div 8
\* chess::Bitboard(chess::File) and chess::Bitboard(chess::Rank)
FileBB(f) == {s \in Squares : FileOf(s) = f}
RankBB(r) == {s \in Squares : RankOf(s) = r}
\* b << k (k > 0) and b >> -k (k < 0) on 64 bits
ShiftBits(b, k) == {s + k : s \in b} \cap Squares

\* namespace BitOp, Eval.hpp:14-92
\* bitboard >> 1 without the mask of file H
shift_left_wrapping(bitboard) == ShiftBits(bitboard, -1)
shift_left(bitboard) == ShiftBits(bitboard, -1) \ FileBB(7)
shift_right(bitboard) == ShiftBits(bitboard, 1) \ FileBB(0)
shift_backward(bitboard, c) ==
    IF c = WHITE THEN ShiftBits(bitboard, -8) ELSE ShiftBits(bitboard, 8)
shift_down(bitboard) == shift_backward(bitboard, WHITE)
shift_forward(bitboard, c) ==
    IF c = WHITE THEN ShiftBits(bitboard, 8) ELSE ShiftBits(bitboard, -8)
shift_up(bitboard) == shift_forward(bitboard, WHITE)

NeighbourShifts(bitboard) ==
    shift_left(bitboard) \cup shift_right(bitboard)
      \cup shift_up(bitboard) \cup shift_down(bitboard)
      \cup shift_left(shift_up(bitboard)) \cup shift_right(shift_up(bitboard))
      \cup shift_left(shift_down(bitboard)) \cup shift_right(shift_down(bitboard))

expand_bits(bitboard) == bitboard \cup NeighbourShifts(bitboard)
\* return ~bitboard | left_shift | ... : the complement of the input, not the input
get_surrounding_bits(bitboard) == (Squares \ bitboard) \cup NeighbourShifts(bitboard)

\* namespace Helper, Eval.hpp:95-104
is_empty(b1, b2) == Cardinality(b1 \cap b2) < 1
any(b1, b2) == ~is_empty(b1, b2)

---------------------------------------------------------------------------
(* The attack tables of the rules library (chess::attacks).                *)

Sq(f, r) == r * 8 + f
OnBoard(f, r) == f \in 0..7 /\ r \in 0..7
Steps(sq, deltas) ==
    {Sq(FileOf(sq) + d[1], RankOf(sq) + d[2]) :
        d \in {e \in deltas : OnBoard(FileOf(sq) + e[1], RankOf(sq) + e[2])}}

\* squares a pawn of colour c on sq attacks
attacks_pawn(c, sq) ==
    Steps(sq, IF c = WHITE THEN {<<-1, 1>>, <<1, 1>>} ELSE {<<-1, -1>>, <<1, -1>>})
attacks_knight(sq) ==
    Steps(sq, {<<1, 2>>, <<2, 1>>, <<2, -1>>, <<1, -2>>,
               <<-1, -2>>, <<-2, -1>>, <<-2, 1>>, <<-1, 2>>})
attacks_king(sq) ==
    Steps(sq, {<<1, 0>>, <<1, 1>>, <<0, 1>>, <<-1, 1>>,
               <<-1, 0>>, <<-1, -1>>, <<0, -1>>, <<1, -1>>})

\* the squares of a ray from sq, up to and including the first occupied one
RECURSIVE Ray(_, _, _, _, _)
Ray(f, r, df, dr, occ) ==
    IF ~OnBoard(f + df, r + dr) THEN {}
    ELSE LET s == Sq(f + df, r + dr)
         IN IF s \in occ THEN {s} ELSE {s} \cup Ray(f + df, r + dr, df, dr, occ)

attacks_bishop(sq, occ) ==
    UNION {Ray(FileOf(sq), RankOf(sq), d[1], d[2], occ) :
              d \in {<<1, 1>>, <<1, -1>>, <<-1, 1>>, <<-1, -1>>}}
attacks_rook(sq, occ) ==
    UNION {Ray(FileOf(sq), RankOf(sq), d[1], d[2], occ) :
              d \in {<<1, 0>>, <<-1, 0>>, <<0, 1>>, <<0, -1>>}}
attacks_queen(sq, occ) == attacks_bishop(sq, occ) \cup attacks_rook(sq, occ)

---------------------------------------------------------------------------
(* Boards of the evaluator: the squares of each kind of piece of each      *)
(* colour, the side to move and the rules' game result for it.             *)

PAWN == "PAWN"
KNIGHT == "KNIGHT"
BISHOP == "BISHOP"
ROOK == "ROOK"
QUEEN == "QUEEN"
KING == "KING"
Kinds == {PAWN, KNIGHT, BISHOP, ROOK, QUEEN, KING}

\* board.pieces(kind, color), board.us(color), board.occ(), board.kingSq(color)
pieces(board, kind, c) == board.pc[c][kind]
us(board, c) == UNION {board.pc[c][k] : k \in Kinds}
occ(board) == us(board, WHITE) \cup us(board, BLACK)
kingSq(board, c) == CHOOSE s \in board.pc[c][KING] : TRUE

\* Helper::isAttackedCount, Eval.hpp:111-139: per kind, 1 if some piece of
\* that kind and colour attacks the square, else absent (0)
\* a count of the attackers: one for every piece that attacks the square
isAttackedCount_every_piece(board, square, c) ==
    [k \in Kinds |->
        LET from == CASE k = PAWN   -> attacks_pawn(Other(c), square)
                      [] k = KNIGHT -> attacks_knight(square)
                      [] k = KING   -> attacks_king(square)
                      [] k = BISHOP -> attacks_bishop(square, occ(board))
                      [] k = ROOK   -> attacks_rook(square, occ(board))
                      [] OTHER      -> attacks_queen(square, occ(board))
        IN Cardinality(from \cap pieces(board, k, c))]

isAttackedCount(board, square, c) ==
    [k \in Kinds |->
        LET from == CASE k = PAWN   -> attacks_pawn(Other(c), square)
                      [] k = KNIGHT -> attacks_knight(square)
                      [] k = KING   -> attacks_king(square)
                      [] k = BISHOP -> attacks_bishop(square, occ(board))
                      [] k = ROOK   -> attacks_rook(square, occ(board))
                      [] OTHER      -> attacks_queen(square, occ(board))
        IN IF from \cap pieces(board, k, c) # {} THEN 1 ELSE 0]

\* the one element of a singleton; binding a value through a singleton
\* evaluates it once, where the code evaluates it once
Only(S) == CHOOSE x \in S : TRUE

RECURSIVE SumOn(_, _)
SumOn(f, S) ==
    IF S = {} THEN 0
    ELSE Only({ f[x] + Only({ SumOn(f, T) : T \in {S \ {x}} })
                : x \in {CHOOSE y \in S : TRUE} })
\* the sum of the values of a function of finite domain
Sum(f) == Only({ SumOn(g, DOMAIN g) : g \in {f} })

\* Helper::total_attackers, Eval.hpp:143-147
total_attackers(map) == Sum(map)

---------------------------------------------------------------------------
(* class Evaluation, Eval.hpp:150-858.  Table index i + 1 is square i.     *)

black_pawn_table ==
    << 0,  0,  0,  0,  0,  0,  0,  0,
      50, 50, 50, 50, 50, 50, 50, 50,
      10, 10, 20, 30, 30, 20, 10, 10,
       5,  5, 10, 25, 25, 10,  5,  5,
       0,  0,  0, 20, 20,  0,  0,  0,
       5, -5,-10,-10,-10,-10, -5,  5,
       5, 10, 10,-20,-20, 10, 10,  5,
       0,  0,  0,  0,  0,  0,  0,  0 >>
black_knight_table ==
    << -50, -40, -30, -30, -30, -30, -40, -50,
       -40, -20,   0,   0,   0,   0, -20, -40,
       -30,   0,  10,  15,  15,  10,   0, -30,
       -30,   5,  15,  20,  20,  15,   5, -30,
       -30,   0,  15,  20,  20,  15,   0, -30,
       -30,   5,  10,  15,  15,  10,   5, -30,
       -40, -20,   0,   5,   5,   0, -20, -40,
       -50, -40, -30, -30, -30, -30, -40, -50 >>
black_bishop_table ==
    << -20, -10, -10, -10, -10, -10, -10, -20,
       -10,   0,   0,   0,   0,   0,   0, -10,
       -10,   0,   5,  10,  10,   5,   0, -10,
       -10,   5,   5,  10,  10,   5,   5, -10,
       -10,   0,  10,  10,  10,  10,   0, -10,
       -10,  10,  10,  10,  10,  10,  10, -10,
       -10,  10,   0,   0,   0,   0,  10, -10,
       -20, -10, -10, -10, -10, -10, -10, -20 >>
black_rook_table ==
    <<  0,   0,   0,   0,   0,   0,   0,   0,
        5,  10,  10,  10,  10,  10,  10,   5,
       -5,   0,   0,   0,   0,   0,   0,  -5,
       -5,   0,   0,   0,   0,   0,   0,  -5,
       -5,   0,   0,   0,   0,   0,   0,  -5,
       -5,   0,   0,   0,   0,   0,   0,  -5,
       -5,   0,   0,   0,   0,   0,   0,  -5,
        0,   0,   0,   5,   5,   0,   0,   0 >>
early_black_queen_table ==
    << -30, -20, -20, -20, -20, -20, -20, -30,
       -20, -20, -10, -10, -10, -10, -20, -20,
       -20, -10,  -5,  -5,  -5,  -5, -10, -20,
       -10, -10,  -5,  -5,  -5,  -5, -10, -10,
       -10, -10,  -5,  -5,  -5,  -5, -10, -10,
       -20, -10,  -5,  -5,  -5,  -5, -10, -20,
       -20, -20, 100, 100, 100, 100, -20, -20,
       -30,  50, 120, 150, 150, 120,  50, -30 >>
late_black_queen_table ==
    << -20, -10, -10,  -5,  -5, -10, -10, -20,
       -10,   0,   0,   0,   0,   0,   0, -10,
       -10,   0,   5,   5,   5,   5,   0, -10,
        -5,   0,   5,   5,   5,   5,   0,  -5,
         0,   0,   5,   5,   5,   5,   0,  -5,
       -10,   5,   5,   5,   5,   5,   0, -10,
       -10,   0,   5,   0,   0,   0,   0, -10,
       -20, -10, -10,  -5,  -5, -10, -10, -20 >>
black_king_table ==
    << -30, -40, -40, -50, -50, -40, -40, -30,
       -30, -40, -40, -50, -50, -40, -40, -30,
       -30, -40, -40, -50, -50, -40, -40, -30,
       -30, -40, -40, -50, -50, -40, -40, -30,
       -20, -30, -30, -40, -40, -30, -30, -20,
       -10, -20, -20, -20, -20, -20, -20, -10,
        20,  20,   0,   0,   0,   0,  20,  20,
        20,  30,  10,   0,   0,  10,  30,  20 >>

\* a copy of the table with no rank exchanged
mirror_table_unmirrored(table) == table
\* mirror_table, Eval.hpp:250-260: mirrored[(7 - rank) * 8 + file] = table[rank * 8 + file]
mirror_table(table) ==
    [i \in 1..64 |-> table[(7 - RankOf(i - 1)) * 8 + FileOf(i - 1) + 1]]

white_pawn_table == mirror_table(black_pawn_table)
white_knight_table == mirror_table(black_knight_table)
white_bishop_table == mirror_table(black_bishop_table)
white_rook_table == mirror_table(black_rook_table)
early_white_queen_table == mirror_table(early_black_queen_table)
late_white_queen_table == mirror_table(late_black_queen_table)
white_king_table == mirror_table(black_king_table)

\* the weights of Eval.hpp:275-297
doubled_pawn_penalty == 20
isolated_pawn_penalty == 20
passed_pawn_bonus == 50
pawn_center_control == 100
valuable_pawn_captures_bonus == 5
backwards_pawn_penalty == 20
bishop_mobility_bonus == 5
bishop_center_bonus == 40
rook_open_file_bonus == 35
stacked_rooks_bonus == 25
rook_mobility_bonus == 5
knight_mobility_bonus == 25
king_restriction_bonus == 8
checks_constant == 25

Sign(c) == IF c = WHITE THEN 1 ELSE -1
Count(b) == Cardinality(b)
B2I(x) == IF x THEN 1 ELSE 0

\* the object after construction, Eval.hpp:300-326 and 263-269
Evaluation(board, side) ==
    [data |-> board, side |-> side,
     pawn_position_score |-> 0, knight_position_score |-> 0,
     bishop_position_score |-> 0, rook_position_score |-> 0,
     queen_position_score |-> 0, king_position_score |-> 0,
     pins_and_checks_score |-> 0]

\* the piece values of the classical centipawn scale
material_value_classical(kind) ==
    CASE kind = PAWN -> 100 [] kind = KNIGHT -> 300 [] kind = BISHOP -> 300
      [] kind = ROOK -> 500 [] kind = QUEEN -> 900 [] OTHER -> 0

\* naive_material_balance, Eval.hpp:328-362
material_value(kind) ==
    CASE kind = PAWN -> 200 [] kind = KNIGHT -> 600 [] kind = BISHOP -> 700
      [] kind = ROOK -> 1000 [] kind = QUEEN -> 1800 [] OTHER -> 0

naive_material_balance(e) ==
    Sum([x \in {WHITE, BLACK} \X {PAWN, KNIGHT, BISHOP, ROOK, QUEEN} |->
            Count(pieces(e.data, x[2], x[1])) * material_value(x[2]) * Sign(x[1])])

\* checks and king restriction of one attack set: the amount added to
\* pins_and_checks_score (Eval.hpp:408-416, 574-582, 644-652, 735-743)
KingPressure(attack_set, enemy_king, c, count_check) ==
    (IF count_check /\ any(attack_set, enemy_king) THEN Sign(c) * checks_constant ELSE 0)
    + (IF any(attack_set, get_surrounding_bits(enemy_king))
       THEN Sign(c) * king_restriction_bonus ELSE 0)

\* the attackers of the piece of colour c on sq: enemy and allied
Exchange(board, sq, c) ==
    LET is_attacked == isAttackedCount(board, sq, Other(c))
        support == isAttackedCount(board, sq, c)
    IN [is_attacked |-> is_attacked,
        enemy |-> total_attackers(is_attacked),
        allied |-> total_attackers(support)]

\* what file index adds in the loop of pawn_structure, Eval.hpp:378-450
PawnFile(index, allied_pawns, enemy_pawns, enemy_king, enemy_pieces, c) ==
    LET file_bb == FileBB(index)
        rank_bb == RankBB(index)
        adj_files_left == shift_left(file_bb)
        adj_files_right == shift_right(file_bb)
        forward == shift_forward(allied_pawns, c) \cap file_bb
        pawn_captures_bb == shift_left(forward) \cup shift_right(forward)
        count == Count(allied_pawns \cap file_bb)
        on_file == count > 0
        pos_captures == Count(pawn_captures_bb \cap allied_pawns)
    IN [doubled |-> IF on_file /\ count > 1 THEN count - 1 ELSE 0,
        isolated |-> IF /\ on_file
                        /\ is_empty(allied_pawns, adj_files_left)
                        /\ is_empty(allied_pawns, adj_files_right)
                     THEN count ELSE 0,
        passed |-> IF /\ on_file
                      /\ is_empty(enemy_pawns,
                                  adj_files_left \cup file_bb \cup adj_files_right)
                   THEN count ELSE 0,
        captures |-> IF on_file
                     THEN Count(pawn_captures_bb \cap (enemy_pieces \ enemy_pawns))
                     ELSE 0,
        pins |-> IF on_file THEN KingPressure(pawn_captures_bb, enemy_king, c, TRUE)
                 ELSE 0,
        backwards |-> IF ~on_file THEN 0
                      ELSE IF pos_captures = 2 THEN 1
                      ELSE IF pos_captures = 1
                      THEN IF any(pawn_captures_bb, adj_files_left)
                           THEN B2I(is_empty(allied_pawns, adj_files_right))
                           ELSE B2I(is_empty(allied_pawns, adj_files_left))
                      ELSE 0,
        chain |-> IF ~on_file THEN 0
                  ELSE IF pos_captures = 2 THEN pos_captures
                  ELSE IF pos_captures = 1 THEN 1
                  ELSE 0,
        center |-> IF index = 3
                   THEN Count((file_bb \cup adj_files_right)
                              \cap (rank_bb \cup shift_up(rank_bb)) \cap allied_pawns)
                   ELSE 0,
        table |-> Sum([sq \in allied_pawns \cap file_bb |->
                          IF c = WHITE THEN white_pawn_table[sq + 1]
                          ELSE -black_pawn_table[sq + 1]])]

\* the loop of Eval.hpp:452-464: what the pawn on sq adds to pawn_position_score
PawnExchange(board, sq, c) ==
    LET x == Exchange(board, sq, c)
    IN IF x.enemy > 0 /\ x.allied = 0 THEN -(IF c = WHITE THEN 40 ELSE -40)
       ELSE IF x.enemy >= x.allied THEN -((x.enemy - x.allied) * 10)
       ELSE 0

\* pawn_structure, Eval.hpp:365-465: the object after the call and what the
\* call added to its reference parameters
pawn_structure(e, allied_pawns, enemy_pawns, enemy_king, enemy_pieces, c) ==
    IF Count(allied_pawns) = 0
    THEN [e |-> e, doubled_pawns |-> 0, isolated_pawns |-> 0, passed_pawns |-> 0,
          center |-> 0, valuable_pawn_captures |-> 0, backwards_pawns |-> 0,
          pawn_chain |-> 0]
    ELSE LET f == [index \in 0..7 |->
                      PawnFile(index, allied_pawns, enemy_pawns, enemy_king,
                               enemy_pieces, c)]
             exchange == Sum([sq \in allied_pawns |-> PawnExchange(e.data, sq, c)])
         IN [e |-> [e EXCEPT
                      !.pins_and_checks_score = @ + Sum([i \in 0..7 |-> f[i].pins]),
                      !.pawn_position_score =
                          @ + Sum([i \in 0..7 |-> f[i].table]) + exchange],
             doubled_pawns |-> Sum([i \in 0..7 |-> f[i].doubled]),
             isolated_pawns |-> Sum([i \in 0..7 |-> f[i].isolated]),
             passed_pawns |-> Sum([i \in 0..7 |-> f[i].passed]),
             center |-> Sum([i \in 0..7 |-> f[i].center]),
             valuable_pawn_captures |-> Sum([i \in 0..7 |-> f[i].captures]),
             backwards_pawns |-> Sum([i \in 0..7 |-> f[i].backwards]),
             pawn_chain |-> Sum([i \in 0..7 |-> f[i].chain])]

\* sum_pawn_components, Eval.hpp:516-531
sum_pawn_components(w, b) ==
    - (w.doubled_pawns - b.doubled_pawns) * doubled_pawn_penalty
    - (w.isolated_pawns - b.isolated_pawns) * isolated_pawn_penalty
    + (w.passed_pawns - b.passed_pawns) * passed_pawn_bonus
    + (w.center - b.center) * pawn_center_control
    + (w.valuable_pawn_captures - b.valuable_pawn_captures) * valuable_pawn_captures_bonus
    - (w.backwards_pawns - b.backwards_pawns) * backwards_pawn_penalty
    + (w.pawn_chain - b.pawn_chain)

\* pawn_score, Eval.hpp:467-513
pawn_score(e) ==
    LET d == e.data
        w == pawn_structure(e, pieces(d, PAWN, WHITE), pieces(d, PAWN, BLACK),
                            pieces(d, KING, BLACK), us(d, BLACK), WHITE)
        b == pawn_structure(w.e, pieces(d, PAWN, BLACK), pieces(d, PAWN, WHITE),
                            pieces(d, KING, WHITE), us(d, WHITE), BLACK)
    IN [e |-> b.e, val |-> sum_pawn_components(w, b)]

\* an int after += 0.5 and after += -0.5: the sum is truncated towards zero
AddHalf(x, c) ==
    IF c = WHITE THEN (IF x >= 0 THEN x ELSE x + 1)
    ELSE (IF x <= 0 THEN x ELSE x - 1)

\* the loop of Eval.hpp:592-609: what the bishop on sq adds to bishop_position_score
BishopExchange(board, sq, c) ==
    LET x == Exchange(board, sq, c)
    IN IF x.is_attacked[PAWN] # 0 THEN -(IF c = WHITE THEN 75 ELSE -75)
       ELSE IF x.enemy > 0 /\ x.allied = 0 THEN -(IF c = WHITE THEN 75 ELSE -75)
       ELSE IF x.enemy >= x.allied THEN -((x.enemy - x.allied) * 15)
       ELSE 0

\* bishop_eval, Eval.hpp:545-610; the table loop of lines 557-567 adds the
\* entry of every square, occupied or not
bishop_eval(e, bishops, bishop_pair_bonus, enemy_king, c) ==
    IF Count(bishops) = 0
    THEN [e |-> e, mobility |-> 0, bishop_pair_bonus |-> bishop_pair_bonus,
          bishop_center |-> 0]
    ELSE LET all_pieces == occ(e.data)
             table == Sum([rank \in 0..7 |->
                              Sum([file \in 0..7 |->
                                      IF c = WHITE
                                      THEN white_bishop_table[Sq(file, rank) + 1]
                                      ELSE -black_bishop_table[Sq(file, rank) + 1]])])
             file_bb == FileBB(3)
             rank_bb == RankBB(3)
         IN [e |-> [e EXCEPT
                      !.bishop_position_score =
                          @ + table
                            + Sum([sq \in bishops |-> BishopExchange(e.data, sq, c)]),
                      !.pins_and_checks_score =
                          @ + Sum([sq \in bishops |->
                                     KingPressure(attacks_bishop(sq, all_pieces),
                                                  enemy_king, c, TRUE)])],
             mobility |-> Sum([sq \in bishops |->
                                  Count(attacks_bishop(sq, all_pieces))]),
             bishop_pair_bonus |-> IF Count(bishops) > 1
                                   THEN AddHalf(bishop_pair_bonus, c)
                                   ELSE bishop_pair_bonus,
             bishop_center |-> Count((file_bb \cup shift_right(file_bb))
                                     \cap (rank_bb \cup shift_up(rank_bb))
                                     \cap bishops)]

\* bishop_score, Eval.hpp:533-543
bishop_score(e) ==
    LET d == e.data
        w == bishop_eval(e, pieces(d, BISHOP, WHITE), 0, pieces(d, KING, BLACK), WHITE)
        b == bishop_eval(w.e, pieces(d, BISHOP, BLACK), w.bishop_pair_bonus,
                         pieces(d, KING, WHITE), BLACK)
    IN [e |-> b.e,
        val |-> (w.mobility - b.mobility) * bishop_mobility_bonus
                + (w.bishop_center - b.bishop_center) * bishop_center_bonus
                + b.bishop_pair_bonus]

\* the loop of Eval.hpp:658-674: what the knight on sq adds to knight_position_score
KnightExchange(board, sq, c) ==
    LET x == Exchange(board, sq, c)
    IN IF x.enemy > 0 /\ x.allied = 0 THEN -(IF c = WHITE THEN 60 ELSE -60)
       ELSE IF x.is_attacked[PAWN] # 0 THEN -(IF c = WHITE THEN 50 ELSE -50)
       ELSE IF x.enemy >= x.allied THEN -((x.enemy - x.allied) * 15)
       ELSE 0

\* knight_eval, Eval.hpp:619-675
knight_eval(e, knights, enemy_king, allied_pieces, c) ==
    IF Count(knights) = 0 THEN [e |-> e, knight_mobility |-> 0]
    ELSE [e |-> [e EXCEPT
                   !.knight_position_score =
                       @ + Sum([sq \in knights |->
                                  IF c = WHITE THEN white_knight_table[sq + 1]
                                  ELSE -black_knight_table[sq + 1]])
                         + Sum([sq \in knights |-> KnightExchange(e.data, sq, c)]),
                   !.pins_and_checks_score =
                       @ + Sum([sq \in knights |->
                                  KingPressure(attacks_knight(sq), enemy_king, c, TRUE)])],
          knight_mobility |-> Sum([sq \in knights |->
                                      Count(attacks_knight(sq) \ allied_pieces)])]

\* knight_score, Eval.hpp:612-617
knight_score(e) ==
    LET d == e.data
        w == knight_eval(e, pieces(d, KNIGHT, WHITE), pieces(d, KING, BLACK),
                         us(d, WHITE), WHITE)
        b == knight_eval(w.e, pieces(d, KNIGHT, BLACK), pieces(d, KING, WHITE),
                         us(d, BLACK), BLACK)
    IN [e |-> b.e, val |-> (w.knight_mobility - b.knight_mobility) * knight_mobility_bonus]

\* the loop of Eval.hpp:746-766: what the rook on sq adds to rook_position_score
RookExchange(board, sq, c) ==
    LET x == Exchange(board, sq, c)
    IN IF x.enemy > 0 /\ x.allied = 0 THEN -(IF c = WHITE THEN 125 ELSE -125)
       ELSE IF x.is_attacked[PAWN] # 0 THEN -(IF c = WHITE THEN 125 ELSE -125)
       ELSE IF x.is_attacked[KNIGHT] # 0 \/ x.is_attacked[BISHOP] # 0
       THEN (IF x.allied < x.enemy THEN -(IF c = WHITE THEN 50 ELSE -50) ELSE 0)
       ELSE IF x.enemy >= x.allied THEN -((x.allied - x.enemy) * 15)
       ELSE 0

\* rook_eval, Eval.hpp:692-767; open files and ranks are tested against
\* black_pawns whatever the colour of the rooks
rook_eval(e, rooks, enemy_king, c) ==
    IF Count(rooks) = 0
    THEN [e |-> e, rook_open_file |-> 0, stacked_rook |-> 0, rook_mobility |-> 0]
    ELSE LET all_pieces == occ(e.data)
             black_pawns == pieces(e.data, PAWN, BLACK)
         IN [e |-> [e EXCEPT
                      !.rook_position_score =
                          @ + Sum([sq \in rooks |->
                                     IF c = WHITE THEN white_rook_table[sq + 1]
                                     ELSE -black_rook_table[sq + 1]])
                            + Sum([sq \in rooks |-> RookExchange(e.data, sq, c)]),
                      !.pins_and_checks_score =
                          @ + Sum([sq \in rooks |->
                                     KingPressure(attacks_rook(sq, all_pieces),
                                                  enemy_king, c, TRUE)])],
             rook_open_file |->
                 Sum([index \in 0..7 |->
                         B2I(FileBB(index) \cap black_pawns = {})
                         + B2I(RankBB(index) \cap black_pawns = {})]),
             stacked_rook |->
                 Sum([index \in 0..7 |->
                         B2I(Count(rooks \cap FileBB(index)) >= 2)
                         + B2I(Count(rooks \cap RankBB(index)) >= 2)]),
             rook_mobility |-> Sum([sq \in rooks |->
                                       Count(attacks_rook(sq, all_pieces))])]

\* rook_score, Eval.hpp:677-690
rook_score(e) ==
    LET d == e.data
        w == rook_eval(e, pieces(d, ROOK, WHITE), pieces(d, KING, BLACK), WHITE)
        b == rook_eval(w.e, pieces(d, ROOK, BLACK), pieces(d, KING, WHITE), BLACK)
    IN [e |-> b.e,
        val |-> (w.rook_open_file - b.rook_open_file) * rook_open_file_bonus
                + (w.stacked_rook - b.stacked_rook) * stacked_rooks_bonus
                + (w.rook_mobility - b.rook_mobility) * rook_mobility_bonus]

\* queen_eval, Eval.hpp:778-819
queen_eval(e, queens, enemy_king, enemy_pieces, c) ==
    IF Count(queens) = 0 THEN e
    ELSE LET all_pieces == occ(e.data)
             enemy_pieces_count == Count(enemy_pieces)
         IN [e EXCEPT
               !.queen_position_score =
                   @ + Sum([sq \in queens |->
                              IF enemy_pieces_count > 10
                              THEN (IF c = WHITE THEN early_white_queen_table[sq + 1]
                                    ELSE -early_black_queen_table[sq + 1])
                              ELSE (IF c = WHITE THEN late_white_queen_table[sq + 1]
                                    ELSE -late_black_queen_table[sq + 1])]),
               !.pins_and_checks_score =
                   @ + Sum([sq \in queens |->
                              KingPressure(attacks_queen(sq, all_pieces), enemy_king, c,
                                           enemy_pieces_count < 11)])]

\* queen_score, Eval.hpp:769-776
queen_score(e) ==
    LET d == e.data
        w == queen_eval(e, pieces(d, QUEEN, WHITE), pieces(d, KING, BLACK),
                        us(d, BLACK), WHITE)
        b == queen_eval(w, pieces(d, QUEEN, BLACK), pieces(d, KING, WHITE),
                        us(d, WHITE), BLACK)
    IN [e |-> b, val |-> 0]

\* king_eval, Eval.hpp:830-836
king_eval(e, c) ==
    LET king_attackers ==
            total_attackers(isAttackedCount(e.data, kingSq(e.data, c), Other(c)))
    IN IF king_attackers >= 2
       THEN [e EXCEPT !.king_position_score = @ - (IF c = WHITE THEN 300 ELSE -300)]
       ELSE e

\* king_score, Eval.hpp:821-828
king_score(e) == [e |-> king_eval(king_eval(e, WHITE), BLACK), val |-> 0]

\* sum_pos, Eval.hpp:838-840
sum_pos(e) ==
    e.pawn_position_score + e.bishop_position_score + e.knight_position_score
    + e.rook_position_score + e.queen_position_score + e.king_position_score

\* the NONE case of static_eval, Eval.hpp:846-847: the object after the
\* call and the value returned
static_eval_none(e) ==
    Only({
     Only({
      Only({
       Only({
        Only({
         Only({ [e |-> k.e,
                 val |-> naive_material_balance(e) + p.val + b.val + n.val
                         + r.val + q.val + k.val
                         + sum_pos(k.e) + k.e.pins_and_checks_score]
                : k \in {king_score(q.e)} })
         : q \in {queen_score(r.e)} })
        : r \in {rook_score(n.e)} })
       : n \in {knight_score(b.e)} })
      : b \in {bishop_score(p.e)} })
     : p \in {pawn_score(e)} })

\* Evaluation::static_eval, Eval.hpp:842-857
static_eval(e) ==
    IF e.data.result = "NONE"
    THEN Only({ [e |-> r.e, val |-> static_eval_switch("NONE", e.side, r.val)]
                : r \in {static_eval_none(e)} })
    ELSE [e |-> e, val |-> static_eval_switch(e.data.result, e.side, 0)]

---------------------------------------------------------------------------
(* The boards the evaluator is run on *)

NoPieces == [k \in Kinds |-> {}]
Board(white, black, stm, result) ==
    [pc |-> [c \in {WHITE, BLACK} |-> IF c = WHITE THEN white @@ NoPieces
                                      ELSE black @@ NoPieces],
     stm |-> stm, result |-> result]

\* rnbqkbnr/pppppppp/8/8/8/8/PPPPPPPP/RNBQKBNR w KQkq - 0 1
StartBoard ==
    Board([PAWN |-> 8..15, KNIGHT |-> {1, 6}, BISHOP |-> {2, 5}, ROOK |-> {0, 7},
           QUEEN |-> {3}, KING |-> {4}],
          [PAWN |-> 48..55, KNIGHT |-> {57, 62}, BISHOP |-> {58, 61}, ROOK |-> {56, 63},
           QUEEN |-> {59}, KING |-> {60}],
          WHITE, "NONE")

\* boards on which the game is over, with the rules' result for the side to move
TerminalBoards ==
    { \* 8/8/8/8/8/4k3/4q3/4K3 w: White is mated
      Board([KING |-> {4}], [QUEEN |-> {12}, KING |-> {20}], WHITE, "LOSE"),
      \* 4k3/4Q3/4K3/8/8/8/8/8 b: Black is mated
      Board([QUEEN |-> {52}, KING |-> {44}], [KING |-> {60}], BLACK, "LOSE"),
      \* 7k/5Q2/6K1/8/8/8/8/8 b: stalemate
      Board([QUEEN |-> {53}, KING |-> {46}], [KING |-> {63}], BLACK, "DRAW"),
      \* 4k3/8/8/8/8/8/8/4K3 w: insufficient material
      Board([KING |-> {4}], [KING |-> {60}], WHITE, "DRAW") }

\* pieces added to the kings on e1 and e8: <<colour, kind, square>>
Placements ==
    { <<WHITE, ROOK, 0>>, <<WHITE, ROOK, 27>>, <<BLACK, ROOK, 56>>, <<BLACK, ROOK, 39>>,
      <<WHITE, PAWN, 8>>, <<WHITE, PAWN, 28>>, <<BLACK, PAWN, 48>>, <<BLACK, PAWN, 35>>,
      <<WHITE, KNIGHT, 18>>, <<BLACK, BISHOP, 45>> }

ExtraSets ==
    {E \in SUBSET Placements :
        /\ Cardinality(E) <= MaxExtraPieces
        /\ \A x, y \in E : x[3] = y[3] => x = y
        /\ \E x \in E : x[2] \in {PAWN, ROOK}}

Placed(E, stm) ==
    [pc |-> [c \in {WHITE, BLACK} |->
               [k \in Kinds |-> {x[3] : x \in {y \in E : y[1] = c /\ y[2] = k}}
                                \cup (IF k = KING THEN {IF c = WHITE THEN 4 ELSE 60}
                                      ELSE {})]],
     stm |-> stm, result |-> "NONE"]

\* the game is not over on such a board: no king is attacked and each king
\* has a free square to go to (and a pawn or a rook is left)
KingCanMove(board, c) ==
    \E s \in attacks_king(kingSq(board, c)) \ us(board, c) :
        total_attackers(isAttackedCount(board, s, Other(c))) = 0
Playable(board) ==
    \A c \in {WHITE, BLACK} :
        /\ total_attackers(isAttackedCount(board, kingSq(board, c), Other(c))) = 0
        /\ KingCanMove(board, c)

PlacedBoards ==
    {b \in {Placed(E, stm) : E \in ExtraSets, stm \in {WHITE, BLACK}} : Playable(b)}

EvalBoards == {StartBoard} \cup TerminalBoards \cup PlacedBoards

\* the board colour-swapped and mirrored vertically, the other side to move
MirrorSquare(s) == (7 - RankOf(s)) * 8 + FileOf(s)
Mirror(board) ==
    [pc |-> [c \in {WHITE, BLACK} |->
               [k \in Kinds |-> {MirrorSquare(s) : s \in board.pc[Other(c)][k]}]],
     stm |-> Other(board.stm), result |-> board.result]

---------------------------------------------------------------------------
(* The evaluator's operations *)

\* Evaluation evale(data, data.sideToMove()), test.cpp:80, 169, 267, 329
Construct(board) == Evaluation(board, board.stm)

\* int stand_pat = evale.static_eval();
StaticEval ==
    /\ Len(scores) < MaxEvalCalls
    /\ \E r \in {static_eval(evaluation)} :
         /\ evaluation' = r.e
         /\ scores' = Append(scores, r.val)
    /\ UNCHANGED <<twin, search_vars, helper_vars>>

\* a new object on the mirror image of the board just scored
EvaluateMirror ==
    /\ scores # <<>>
    /\ twin = <<>>
    /\ evaluation' = Construct(Mirror(evaluation.data))
    /\ twin' = <<scores[1]>>
    /\ scores' = <<>>
    /\ UNCHANGED <<search_vars, helper_vars>>

\* no helper has been called on its own
NoObservation == [op |-> "none"]
HelperIdle ==
    /\ operand = {}
    /\ observed = NoObservation

EvalIdle ==
    /\ evaluation = Construct(StartBoard)
    /\ scores = <<>>
    /\ twin = <<>>

SearchIdle ==
    /\ root = 1
    /\ hval = <<>>
    /\ max_depth = 0
    /\ color = WHITE
    /\ data = <<1>>
    /\ transposition_table = <<>>
    /\ rets = <<>>
    /\ last = NoCall

EvalInit ==
    /\ SearchIdle
    /\ HelperIdle
    /\ \E b \in EvalBoards : evaluation = Construct(b)
    /\ scores = <<>>
    /\ twin = <<>>

EvalNext == StaticEval \/ EvaluateMirror

EvalSpec == EvalInit /\ [][EvalNext]_vars

---------------------------------------------------------------------------
(* The search's specification *)

\* the heuristic scores the abstract positions may have
HeuristicValues == {-30, -10, 0, 40}
DeepHeuristicValues == {-20, 25}

SearchInit ==
    /\ root \in RootPositions
    /\ \E f \in [{2, 3, 4} -> HeuristicValues], g \in [{5, 6} -> DeepHeuristicValues] :
          hval = f @@ g @@ (7 :> 25)
    /\ max_depth \in 0..MaxDepth
    /\ color \in {WHITE, BLACK}
    /\ data = <<root>>
    /\ transposition_table = <<>>
    /\ rets = <<>>
    /\ last = NoCall

Init == SearchInit /\ EvalIdle /\ HelperIdle

Next == \E indeterminate \in IndeterminateInts : find_best_move(indeterminate)

Spec == Init /\ [][Next]_vars

---------------------------------------------------------------------------
(* Claims about the search, checked under Spec *)

Range(s) == {s[i] : i \in DOMAIN s}
Called == Len(rets) > 0
LastRet == rets[Len(rets)]

\* C1: when find_best_move returns, the position (and so its hash) is the
\* position before the call, and every make_move of the search has been
\* followed by its unmake_move.
C1_MakeUnmakeBalance ==
    /\ data = <<root>>
    /\ Called => /\ data = last.before
                 /\ hash(Top(data)) = hash(Top(last.before))
                 /\ last.makes = last.unmakes

\* a call that made moves and left by a cutoff, a cache hit and a stand-pat return
C1_Witness ==
    /\ Called
    /\ last.makes > 0
    /\ last.cutoffs > 0
    /\ last.hits > 0
    /\ last.standpats > 0

\* C2: for a position with at least one legal move and max_depth >= 1 the
\* move returned is a member of the legal-move list of the position.
C2_ReturnedMoveIsLegal ==
    (Called /\ max_depth >= 1 /\ legalmoves(root) # <<>>)
        => LastRet \in Range(legalmoves(root))

\* C3: two runs of find_best_move on the same position with the same
\* max_depth and colour return the same move, the second seeing the table
\* the first one filled.
C3_Deterministic ==
    \A i, j \in DOMAIN rets : rets[i] = rets[j]

\* C4: with more than one legal move, the move returned is the best root
\* move of the last iteration d = max_depth.
C4_LastIterationWins ==
    (Called /\ max_depth >= 1 /\ Len(legalmoves(root)) > 1)
        => /\ Len(last.iters) = max_depth
           /\ LastRet = last.iters[max_depth].best_move_for_depth

\* value the iteration found for the move it kept
KeptValue(it) ==
    LET i == CHOOSE k \in DOMAIN it.moves : it.moves[k] = it.best_move_for_depth
    IN it.evals[i]

\* C5: at each iteration the root keeps, for white, a move whose child value
\* is the maximum over the root moves and, for black, one whose child value
\* is the minimum.
C5_RootComparator ==
    \A n \in DOMAIN last.iters :
        LET it == last.iters[n]
        IN \A k \in DOMAIN it.evals :
              IF color = WHITE THEN KeptValue(it) >= it.evals[k]
              ELSE KeptValue(it) <= it.evals[k]

\* C6: with exactly one legal move find_best_move returns it without
\* calling Minimax and leaves the table and the position unchanged.
C6_OnlyMove ==
    (Called /\ Len(legalmoves(root)) = 1)
        => /\ LastRet = legalmoves(root)[1]
           /\ last.calls = 0
           /\ last.makes = 0
           /\ transposition_table = last.tt_before
           /\ data = last.before

\* the reference values: quiescence and depth-limited minimax without
\* pruning, cache or window, white maximising
RECURSIVE TrueQuiescence(_)
TrueQuiescence(p) ==
    LET stand_pat == static_eval_at(p)
        noisy == generate_noisy_moves(legalmoves(p), p)
        kids == {TrueQuiescence(noisy[i]) : i \in DOMAIN noisy} \cup {stand_pat}
    IN IF isGameOver(p) # "NONE" THEN stand_pat
       ELSE IF sideToMove(p) = WHITE
       THEN CHOOSE v \in kids : \A w \in kids : v >= w
       ELSE CHOOSE v \in kids : \A w \in kids : v <= w

RECURSIVE TrueMinimax(_, _)
TrueMinimax(p, depth) ==
    IF depth = 0 \/ isGameOver(p) # "NONE" THEN TrueQuiescence(p)
    ELSE LET moves == legalmoves(p)
             kids == {TrueMinimax(moves[i], depth - 1) : i \in DOMAIN moves}
         IN IF sideToMove(p) = WHITE
            THEN CHOOSE v \in kids : \A w \in kids : v >= w
            ELSE CHOOSE v \in kids : \A w \in kids : v <= w

\* C8: an entry whose exact flag is set holds the minimax value of its
\* position for the depth recorded in the entry.
C8_ExactEntriesAreMinimax ==
    \A h \in DOMAIN transposition_table :
        transposition_table[h].is_exact
            => transposition_table[h].value = TrueMinimax(h, transposition_table[h].depth)

---------------------------------------------------------------------------
(* Claims about the evaluator, checked under EvalSpec.  scores holds the   *)
(* values static_eval returned on the current object, twin the first value *)
(* returned on the board of which the current one is the mirror image.     *)

GameOver == evaluation.data.result # "NONE"
Scored == scores # <<>>

\* C7: on a game-over position static_eval returns 0 for a draw, -99999
\* when White, to move, is mated and +99999 when Black, to move, is mated,
\* the object being built with side = side to move; nothing is added to it.
C7_TerminalSentinels ==
    (GameOver /\ Scored) =>
        \A i \in DOMAIN scores :
            scores[i] = CASE evaluation.data.result = "DRAW" -> 0
                          [] evaluation.data.result = "LOSE"
                             /\ evaluation.data.stm = WHITE -> -MateScore
                          [] evaluation.data.result = "LOSE"
                             /\ evaluation.data.stm = BLACK -> MateScore

\* Black, to move, is mated and the position has been scored twice
C7_Witness ==
    /\ evaluation.data.result = "LOSE"
    /\ evaluation.data.stm = BLACK
    /\ evaluation.side = BLACK
    /\ Len(scores) = 2
    /\ scores[1] = MateScore

Abs(x) == IF x < 0 THEN -x ELSE x

\* C9: for a position where the game is not over, static_eval of the
\* position and static_eval of its colour-swapped, vertically mirrored
\* image are opposite, up to at most 5 points.
C9_MirrorSymmetry ==
    (~GameOver /\ Scored /\ twin # <<>>) => Abs(scores[1] + twin[1]) <= 5

\* C10: static_eval of the standard start position is exactly 0.
C10_StartPositionBalance ==
    (evaluation.data = StartBoard /\ Scored) => scores[1] = 0

\* the start position, scored by a newly built object
C10_Witness ==
    /\ evaluation.data = StartBoard
    /\ evaluation.side = WHITE
    /\ Len(scores) = 1

---------------------------------------------------------------------------
(* The functions of namespace BitOp called on their own, on bitboards of   *)
(* at most MaxBits bits.                                                   *)

\* corner, edge and centre squares used for the bits after the first
ExtraBitSquares == {0, 7, 8, 15, 28, 56, 63}
\* the empty bitboard and the bitboards of one bit anywhere and fewer than
\* MaxBits further bits
Bitboards ==
    {{}} \cup {{s} \cup x : s \in Squares,
                            x \in {y \in SUBSET ExtraBitSquares : Cardinality(y) < MaxBits}}

ShiftLeft ==
    /\ observed' = [op |-> "shift_left", out |-> shift_left(operand)]
    /\ UNCHANGED <<operand, search_vars, eval_vars>>

ShiftRight ==
    /\ observed' = [op |-> "shift_right", out |-> shift_right(operand)]
    /\ UNCHANGED <<operand, search_vars, eval_vars>>

ExpandBits ==
    /\ observed' = [op |-> "expand_bits", out |-> expand_bits(operand)]
    /\ UNCHANGED <<operand, search_vars, eval_vars>>

GetSurroundingBits ==
    /\ observed' = [op |-> "get_surrounding_bits", out |-> get_surrounding_bits(operand)]
    /\ UNCHANGED <<operand, search_vars, eval_vars>>

BitInit ==
    /\ SearchIdle
    /\ EvalIdle
    /\ operand \in Bitboards
    /\ observed = NoObservation

BitNext == ShiftLeft \/ ShiftRight \/ ExpandBits \/ GetSurroundingBits

BitSpec == BitInit /\ [][BitNext]_vars

---------------------------------------------------------------------------
(* Claims about namespace BitOp, checked under BitSpec *)

\* the squares a king's move away from a square of b
AdjacentSquares(b) ==
    {t \in Squares : \E s \in b : /\ t # s
                                  /\ Abs(FileOf(t) - FileOf(s)) <= 1
                                  /\ Abs(RankOf(t) - RankOf(s)) <= 1}

\* C11: for a single-bit bitboard b, get_surrounding_bits(b) is
\* expand_bits(b) with the origin bit cleared: exactly the up-to-8 squares
\* adjacent to b.
C11_RingIsNeighbours ==
    (observed.op = "get_surrounding_bits" /\ Cardinality(operand) = 1)
        => /\ observed.out = expand_bits(operand) \ operand
           /\ observed.out = AdjacentSquares(operand)

\* C12: square i is set in shift_left(b) iff i is not on file H and i + 1
\* is set in b; square i is set in shift_right(b) iff i is not on file A
\* and i - 1 is set in b.
C12_ShiftsNeverWrap ==
    /\ observed.op = "shift_left"
          => \A i \in Squares :
                i \in observed.out <=> (FileOf(i) # 7 /\ (i + 1) \in operand)
    /\ observed.op = "shift_right"
          => \A i \in Squares :
                i \in observed.out <=> (FileOf(i) # 0 /\ (i - 1) \in operand)

\* a8 and h2 shifted left: the bit of a8 is discarded, not moved to h7
C12_Witness ==
    /\ observed.op = "shift_left"
    /\ operand = {15, 56}
    /\ observed.out = {14}

---------------------------------------------------------------------------
(* Claims about the piece-square tables, checked under EvalSpec *)

\* the table the evaluator keeps for a kind and a colour; the queen's is
\* the early or the late one by the number of enemy pieces (Eval.hpp:795-800)
TableFor(board, kind, c) ==
    CASE kind = PAWN -> IF c = WHITE THEN white_pawn_table ELSE black_pawn_table
      [] kind = KNIGHT -> IF c = WHITE THEN white_knight_table ELSE black_knight_table
      [] kind = BISHOP -> IF c = WHITE THEN white_bishop_table ELSE black_bishop_table
      [] kind = ROOK -> IF c = WHITE THEN white_rook_table ELSE black_rook_table
      [] kind = QUEEN -> IF Count(us(board, Other(c))) > 10
                         THEN (IF c = WHITE THEN early_white_queen_table
                               ELSE early_black_queen_table)
                         ELSE (IF c = WHITE THEN late_white_queen_table
                               ELSE late_black_queen_table)
      [] kind = KING -> IF c = WHITE THEN white_king_table ELSE black_king_table

\* the sum, over the pieces of the kind that are on the board, of the
\* table entry of their square: added for White, subtracted for Black
OccupiedTableTerm(board, kind) ==
    Sum([x \in {y \in {WHITE, BLACK} \X Squares : y[2] \in pieces(board, kind, y[1])}
            |-> Sign(x[1]) * TableFor(board, kind, x[1])[x[2] + 1]])

\* what a kind's position score holds besides its table term: the
\* penalties for attacked pieces, and for a king attacked twice
PenaltyTerm(board, kind) ==
    LET each(F(_, _, _)) ==
            Sum([x \in {y \in {WHITE, BLACK} \X Squares : y[2] \in pieces(board, kind, y[1])}
                    |-> F(board, x[2], x[1])])
        king(c) ==
            IF total_attackers(isAttackedCount(board, kingSq(board, c), Other(c))) >= 2
            THEN -(IF c = WHITE THEN 300 ELSE -300) ELSE 0
    IN CASE kind = PAWN -> each(PawnExchange)
         [] kind = KNIGHT -> each(KnightExchange)
         [] kind = BISHOP -> each(BishopExchange)
         [] kind = ROOK -> each(RookExchange)
         [] kind = QUEEN -> 0
         [] kind = KING -> king(WHITE) + king(BLACK)

PositionScore(e, kind) ==
    CASE kind = PAWN -> e.pawn_position_score
      [] kind = KNIGHT -> e.knight_position_score
      [] kind = BISHOP -> e.bishop_position_score
      [] kind = ROOK -> e.rook_position_score
      [] kind = QUEEN -> e.queen_position_score
      [] kind = KING -> e.king_position_score

\* C13: after static_eval on a position where the game is not over, the
\* piece-square table term inside every kind's position score (pawn, knight,
\* bishop, rook, queen, king) is the sum over the pieces of that kind that
\* are on the board of white_table[s], minus black_table[s] for Black's;
\* squares without such a piece contribute nothing.
C13_TableTermOverOccupiedSquares ==
    (~GameOver /\ Len(scores) = 1) =>
        \A kind \in Kinds :
            PositionScore(evaluation, kind) - PenaltyTerm(evaluation.data, kind)
                = OccupiedTableTerm(evaluation.data, kind)

---------------------------------------------------------------------------
(* naive_material_balance on its own: MaterialSpec draws a board for every *)
(* combination of at most MaxPerKind pawns, knights, bishops, rooks and    *)
(* queens of one colour against a few armies of the other, and calls it.   *)

Valued == {PAWN, KNIGHT, BISHOP, ROOK, QUEEN}

\* the first square of the run of squares on which an army's pieces of a
\* kind are put down; the kings stand on e1 and e8
FirstSquare(c, kind) ==
    IF c = WHITE
    THEN CASE kind = PAWN -> 8 [] kind = KNIGHT -> 16 [] kind = BISHOP -> 20
           [] kind = ROOK -> 0 [] kind = QUEEN -> 5 [] kind = KING -> 4
    ELSE CASE kind = PAWN -> 48 [] kind = KNIGHT -> 40 [] kind = BISHOP -> 44
           [] kind = ROOK -> 56 [] kind = QUEEN -> 61 [] kind = KING -> 60

Army(c, counts) ==
    [kind \in Kinds |->
        IF kind = KING THEN {FirstSquare(c, KING)}
        ELSE {FirstSquare(c, kind) + i : i \in 0..(counts[kind] - 1)}]

CountVectors == [Valued -> 0..MaxPerKind]

\* no piece, the army of the start position, a queen and a pawn
FewArmies ==
    { [kind \in Valued |-> 0],
      [kind \in Valued |-> CASE kind = PAWN -> 8 [] kind = QUEEN -> 1 [] OTHER -> 2],
      [kind \in Valued |-> IF kind \in {PAWN, QUEEN} THEN 1 ELSE 0] }

MaterialBoards ==
    {Board(Army(WHITE, w), Army(BLACK, b), WHITE, "NONE") :
        w \in CountVectors, b \in FewArmies}
    \cup {Board(Army(WHITE, w), Army(BLACK, b), WHITE, "NONE") :
        w \in FewArmies, b \in CountVectors}

\* int material = naive_material_balance(); (Eval.hpp:846)
NaiveMaterialBalance ==
    /\ observed' = [op |-> "naive_material_balance",
                    out |-> naive_material_balance(evaluation)]
    /\ UNCHANGED <<operand, search_vars, eval_vars>>

MaterialInit ==
    /\ SearchIdle
    /\ HelperIdle
    /\ \E b \in MaterialBoards : evaluation = Construct(b)
    /\ scores = <<>>
    /\ twin = <<>>

MaterialNext == NaiveMaterialBalance

MaterialSpec == MaterialInit /\ [][MaterialNext]_vars

\* the number of pieces of a kind and colour on the board
On(kind, c) == Cardinality(evaluation.data.pc[c][kind])

\* C14: naive_material_balance returns the sum of White's piece values
\* minus the sum of Black's, with pawn 200, knight 600, bishop 700, rook
\* 1000, queen 1800 and nothing for the kings, whatever the piece counts.
C14_MaterialBalance ==
    observed.op = "naive_material_balance" =>
        observed.out = 200 * (On(PAWN, WHITE) - On(PAWN, BLACK))
                       + 600 * (On(KNIGHT, WHITE) - On(KNIGHT, BLACK))
                       + 700 * (On(BISHOP, WHITE) - On(BISHOP, BLACK))
                       + 1000 * (On(ROOK, WHITE) - On(ROOK, BLACK))
                       + 1800 * (On(QUEEN, WHITE) - On(QUEEN, BLACK))

\* two knights, a bishop and two queens against the army of the start
\* position: 600*(2-2) + 700*(1-2) + 1000*(0-2) + 1800*(2-1) + 200*(0-8)
C14_Witness ==
    /\ observed.op = "naive_material_balance"
    /\ On(PAWN, WHITE) = 0 /\ On(KNIGHT, WHITE) = 2 /\ On(BISHOP, WHITE) = 1
    /\ On(ROOK, WHITE) = 0 /\ On(QUEEN, WHITE) = 2
    /\ On(PAWN, BLACK) = 8 /\ On(ROOK, BLACK) = 2
    /\ observed.out = -2500

---------------------------------------------------------------------------
(* Helper::isAttackedCount and Helper::total_attackers on their own:       *)
(* AttackSpec calls them once, for a square and a colour, on a board of    *)
(* EvalBoards.                                                             *)

\* auto is_attacked = helper.isAttackedCount(data, square, ~color);
\* helper.total_attackers(is_attacked)       (Eval.hpp:453-456, 832)
IsAttackedCount(square, c) ==
    /\ observed = NoObservation
    /\ operand' = {square}
    /\ \E map \in {isAttackedCount(evaluation.data, square, c)} :
         observed' = [op |-> "isAttackedCount", color |-> c, out |-> map,
                      total |-> total_attackers(map)]
    /\ UNCHANGED <<search_vars, eval_vars>>

AttackNext == \E square \in Squares, c \in {WHITE, BLACK} : IsAttackedCount(square, c)

AttackSpec == EvalInit /\ [][AttackNext]_vars

\* the pieces of a kind and colour that attack the square, each found from
\* its own square
AttackersOf(board, kind, c, square) ==
    {s \in pieces(board, kind, c) :
        square \in CASE kind = PAWN   -> attacks_pawn(c, s)
                     [] kind = KNIGHT -> attacks_knight(s)
                     [] kind = KING   -> attacks_king(s)
                     [] kind = BISHOP -> attacks_bishop(s, occ(board))
                     [] kind = ROOK   -> attacks_rook(s, occ(board))
                     [] kind = QUEEN  -> attacks_queen(s, occ(board))}

---------------------------------------------------------------------------
(* Claims about the transposition table, checked under Spec.  last holds   *)
(* what the last call of find_best_move did: the hashes of the Minimax and *)
(* QuiescenceSearch nodes that went into the loop over their moves, the    *)
(* probes of Minimax that found an entry, and the stores in their order.   *)

\* C16: every Minimax node and every QuiescenceSearch node that computes
\* its value from its children (no early return) has stored an entry for
\* its hash by the time it returns, so by the end of the call the table
\* holds an entry for it.
C16_ExpandedNodesAreStored ==
    Called => \A h \in last.minimaxed \cup last.quiesced :
                 h \in DOMAIN transposition_table

---------------------------------------------------------------------------
(* Minimax on its own: MinimaxSpec calls it once on the root, from an      *)
(* empty table, with the window find_best_move opens (test.cpp:216-217),   *)
(* at a depth of 1..MaxDepth, for the side to move.                        *)

CallMinimax ==
    /\ observed = NoObservation
    /\ max_depth >= 1
    /\ transposition_table = <<>>
    /\ \E r \in {Minimax([data |-> data, tt |-> transposition_table]
                            @@ ZeroCounters @@ EmptyTrace,
                         max_depth, -Inf, Inf, sideToMove(Top(data)) = WHITE)} :
         /\ observed' = [op |-> "Minimax", depth |-> max_depth,
                         maximizing_player |-> sideToMove(Top(data)) = WHITE,
                         val |-> r.val]
         /\ data' = r.st.data
         /\ transposition_table' = r.st.tt
    /\ UNCHANGED <<root, hval, max_depth, color, rets, last, operand, eval_vars>>

MinimaxNext == CallMinimax

MinimaxSpec == Init /\ [][MinimaxNext]_vars

\* C17: from an empty cache, for depth >= 1 and either side, Minimax
\* called with the window (-inf, +inf) returns the value of the unpruned
\* depth-limited minimax of the tree: the maximum over the children for the
\* maximizer, the minimum for the minimizer, the leaves scored by quiescence.
C17_AlphaBetaEqualsMinimax ==
    observed.op = "Minimax" => observed.val = TrueMinimax(root, observed.depth)

---------------------------------------------------------------------------
(* Claims about the infinities of the search, checked under Spec *)

\* C18: the values find_best_move starts an iteration with, -inf for alpha
\* and for the running best and +inf for beta, lie strictly outside the
\* range of static_eval: -inf < -99999 and +inf > 99999.
C18_InfinitiesOutsideScoreRange ==
    Called => \A i \in DOMAIN last.iters :
                 /\ last.iters[i].initial.alpha < -MateScore
                 /\ last.iters[i].initial.best_eval_for_depth < -MateScore
                 /\ last.iters[i].initial.beta > MateScore

---------------------------------------------------------------------------
(* Claims about the cache probe and the stores, checked under Spec *)

\* C19: at depth >= 1 on a position where the game is not over, Minimax
\* returns the cached value without expanding a move only if the entry of
\* the position's hash was searched at least as deep, entry.depth >= depth;
\* with an entry of entry.depth < depth the node is searched.
C19_ProbeNeedsDepth ==
    Called => \A x \in last.probes :
                 /\ x.want >= 1
                 /\ x.hit => x.have >= x.want
                 /\ x.have < x.want => (~x.hit /\ x.h \in last.minimaxed)

\* in one call an entry of depth 1 was found at depth 2 and the node was
\* searched, and an entry deep enough was found and returned
C19_Witness ==
    /\ Called
    /\ \E x \in last.probes : x.have = 1 /\ x.want = 2 /\ ~x.hit /\ x.h \in last.minimaxed
    /\ \E y \in last.probes : y.hit /\ y.have >= y.want

\* the stores of the last call under the hash h, in their order
StoresOf(h) == SelectSeq(last.stores, LAMBDA x : x.h = h)

\* C20: a store for a hash that has an entry overwrites it whatever its
\* depth: after the stores of a call the entry of a hash is exactly the last
\* {value, depth, exact flag} stored for it, an entry not stored again is
\* the one held before, and no key is removed.
C20_PutReplaces ==
    Called =>
        /\ \A i \in DOMAIN last.stores :
              /\ last.stores[i].now = last.stores[i].entry
              /\ last.stores[i].lost = {}
        /\ DOMAIN transposition_table
              = DOMAIN last.tt_before \cup {last.stores[i].h : i \in DOMAIN last.stores}
        /\ \A h \in DOMAIN transposition_table :
              transposition_table[h] =
                  IF StoresOf(h) # <<>> THEN StoresOf(h)[Len(StoresOf(h))].entry
                  ELSE last.tt_before[h]

\* the second call stores the root's entry at depth 1 over the entry of
\* depth 3 that the first call left, and the table then holds depth 1
C20_Witness ==
    /\ Len(rets) = 2
    /\ \E i \in DOMAIN last.stores :
          /\ last.stores[i].held # <<>>
          /\ last.stores[i].held[1].depth = 3
          /\ last.stores[i].entry.depth = 1
          /\ last.stores[i].now.depth = 1
          /\ last.stores[i].h \in DOMAIN last.tt_before

---------------------------------------------------------------------------
(* QuiescenceSearch on its own: QuiescenceSpec calls it once, from an      *)
(* empty table, on any position of the graph, for either side and for a    *)
(* window alpha <= beta drawn from WindowValues, or calls                  *)
(* generate_noisy_moves on the legal moves of the position.                *)

WindowValues == {-25, 0, 30}

QuiescenceCall(alpha, beta, maximizing_player) ==
    /\ observed = NoObservation
    /\ transposition_table = <<>>
    /\ \E r \in {QuiescenceSearch([data |-> data, tt |-> transposition_table]
                                     @@ ZeroCounters @@ EmptyTrace,
                                  alpha, beta, maximizing_player)} :
         /\ observed' = [op |-> "QuiescenceSearch", alpha |-> alpha, beta |-> beta,
                         maximizing_player |-> maximizing_player, val |-> r.val,
                         makes |-> r.st.makes, unmakes |-> r.st.unmakes,
                         standpats |-> r.st.standpats, quiesced |-> r.st.quiesced,
                         entered |-> r.st.entered]
         /\ data' = r.st.data
         /\ transposition_table' = r.st.tt
    /\ UNCHANGED <<root, hval, max_depth, color, rets, last, operand, eval_vars>>

QuiescenceInit ==
    /\ root \in Positions
    /\ \E f \in [{2, 3, 4} -> HeuristicValues], g \in [{5, 6} -> DeepHeuristicValues] :
          hval = f @@ g @@ (7 :> 25)
    /\ max_depth = 0
    /\ color \in {WHITE, BLACK}
    /\ data = <<root>>
    /\ transposition_table = <<>>
    /\ rets = <<>>
    /\ last = NoCall
    /\ EvalIdle
    /\ HelperIdle

\* std::vector<chess::Move> noisy_moves = generate_noisy_moves(moves, data);
GenerateNoisyMoves ==
    /\ observed = NoObservation
    /\ observed' = [op |-> "generate_noisy_moves",
                    out |-> generate_noisy_moves(legalmoves(Top(data)), Top(data))]
    /\ UNCHANGED <<operand, search_vars, eval_vars>>

QuiescenceNext ==
    \/ \E alpha, beta \in WindowValues, maximizing_player \in BOOLEAN :
          alpha <= beta /\ QuiescenceCall(alpha, beta, maximizing_player)
    \/ GenerateNoisyMoves

QuiescenceSpec == QuiescenceInit /\ [][QuiescenceNext]_vars

\* the call observed was made on a position where the game is not over
QuiescenceOnLivePosition ==
    observed.op = "QuiescenceSearch" /\ isGameOver(root) = "NONE"

\* C21: on a position where the game is not over and the cache does not
\* hit, the maximizer returns stand_pat at once when stand_pat >= beta and
\* otherwise searches with alpha raised to max(alpha, stand_pat); the
\* minimizer returns stand_pat at once when stand_pat <= alpha and otherwise
\* searches with beta lowered to min(beta, stand_pat); the value returned
\* after the noisy moves were searched is never below stand_pat for the
\* maximizer nor above it for the minimizer.
C21_StandPatUpdate ==
    QuiescenceOnLivePosition =>
        LET stand_pat == static_eval_at(root)
            cut == IF observed.maximizing_player THEN stand_pat >= observed.beta
                   ELSE stand_pat <= observed.alpha
            searched == Len(observed.entered) >= 2
        IN /\ cut => /\ observed.val = stand_pat
                     /\ observed.makes = 0
                     /\ observed.standpats = 1
           /\ ~cut /\ searched =>
                 /\ observed.entered[2].alpha =
                        IF observed.maximizing_player THEN Max(observed.alpha, stand_pat)
                        ELSE observed.alpha
                 /\ observed.entered[2].beta =
                        IF observed.maximizing_player THEN observed.beta
                        ELSE Min(observed.beta, stand_pat)
                 /\ IF observed.maximizing_player THEN observed.val >= stand_pat
                    ELSE observed.val <= stand_pat

\* the maximizer on position 2, stand_pat -10 inside the window (-25, 0):
\* the first noisy move is searched with alpha raised to -10
C21_Witness ==
    /\ observed.op = "QuiescenceSearch"
    /\ root = 2
    /\ observed.maximizing_player
    /\ observed.alpha = -25 /\ observed.beta = 0
    /\ static_eval_at(root) = -10
    /\ Len(observed.entered) >= 2
    /\ observed.entered[2].alpha = -10
    /\ observed.val >= -10

\* no legal move of p is a capture or a promotion or gives check
Quiet(p) ==
    \A i \in DOMAIN legalmoves(p) :
        /\ <<p, legalmoves(p)[i]>> \notin CapturesAndPromotions
        /\ ~inCheck(legalmoves(p)[i])

\* C22: on a position where the game is not over, that has no noisy move
\* and no cache entry, QuiescenceSearch returns exactly stand_pat =
\* static_eval of the position, for every alpha, beta and side, and makes no
\* move on the board.
C22_QuietPositionReturnsStandPat ==
    (QuiescenceOnLivePosition /\ Quiet(root)) =>
        /\ observed.val = static_eval_at(root)
        /\ observed.makes = 0
        /\ Len(observed.entered) = 1
        /\ data = <<root>>

\* the minimizer on the quiet position 3, stand_pat 40 above the window
\* (-25, 30): no cutoff, no noisy move, 40 is returned
C22_Witness ==
    /\ observed.op = "QuiescenceSearch"
    /\ root = 3
    /\ Quiet(root)
    /\ ~observed.maximizing_player
    /\ observed.alpha = -25 /\ observed.beta = 30
    /\ static_eval_at(root) = 40
    /\ observed.standpats = 0
    /\ observed.val = 40

\* the move from p to q is a capture or a promotion, or leaves the
\* opponent in check
Noisy(p, q) == <<p, q>> \in CapturesAndPromotions \/ inCheck(q)

\* the entry of the call that made the move to the position of entry i: the
\* last one before i that is one ply higher up
ParentOf(entered, i) ==
    LET above == {j \in 1..(i - 1) : entered[j].ply = entered[i].ply - 1}
    IN CHOOSE j \in above : \A k \in above : k <= j

\* C29: generate_noisy_moves returns, in the order of the legal-move list,
\* exactly the legal moves that are a capture or a promotion or leave the
\* opponent in check; QuiescenceSearch searches no quiet move that gives no
\* check; and testing the moves for check leaves the board as it was.
C29_NoisyMoveSelection ==
    /\ observed.op = "generate_noisy_moves" =>
          /\ observed.out = SelectSeq(legalmoves(root), LAMBDA q : Noisy(root, q))
          /\ data = <<root>>
    /\ observed.op = "QuiescenceSearch" =>
          /\ \A i \in 2..Len(observed.entered) :
                Noisy(observed.entered[ParentOf(observed.entered, i)].p,
                      observed.entered[i].p)
          /\ data = <<root>>

\* position 6: the quiet move to 10 is dropped, the checking move to 11,
\* no capture, is kept
C29_Witness ==
    /\ observed.op = "generate_noisy_moves"
    /\ root = 6
    /\ legalmoves(root) = <<10, 11>>
    /\ ~Noisy(6, 10)
    /\ <<6, 11>> \notin CapturesAndPromotions
    /\ observed.out = <<11>>

---------------------------------------------------------------------------
(* Claims about the root loop and the move ordering, checked under Spec *)

\* the largest and the smallest element of a non-empty sequence of values
MaxOf(s) == CHOOSE v \in Range(s) : \A w \in Range(s) : v >= w
MinOf(s) == CHOOSE v \in Range(s) : \A w \in Range(s) : v <= w

\* C23: the root window is tightened by the root colour: when the root
\* colour is white, alpha ends an iteration raised to the best value found
\* and beta stays at its initial value; when it is black, beta ends lowered
\* to the best (lowest) value found and alpha stays at its initial value.
C23_RootWindowByColour ==
    Called => \A i \in DOMAIN last.iters :
                 LET it == last.iters[i]
                 IN IF color = WHITE
                    THEN /\ it.alpha = Max(it.initial.alpha, MaxOf(it.evals))
                         /\ it.beta = it.initial.beta
                    ELSE /\ it.beta = Min(it.initial.beta, MinOf(it.evals))
                         /\ it.alpha = it.initial.alpha

\* the calls of Minimax made by the loop of the call of entry i, in their
\* order: the entries one ply below it, up to the next entry that is not
\* below it
ChildrenOf(entered, i) ==
    {j \in (i + 1)..Len(entered) :
        /\ entered[j].fn = "Minimax"
        /\ entered[j].ply = entered[i].ply + 1
        /\ \A k \in (i + 1)..(j - 1) : entered[k].ply > entered[i].ply}

\* the Minimax calls of the last find_best_move that went into their loop
ExpandingCalls ==
    {i \in DOMAIN last.entered :
        /\ last.entered[i].fn = "Minimax"
        /\ last.entered[i].depth >= 1
        /\ ChildrenOf(last.entered, i) # {}}

\* C24: at a Minimax node of depth >= 1 the legal moves are expanded in
\* non-increasing order of the static evaluation of the position after the
\* move, for the maximizer and the minimizer alike: every move expanded
\* leads to a position evaluated at least as high as that of every legal
\* move not expanded before it; and the ordering pass leaves the position
\* as it was, the moves expanded being legal moves of the node's position.
C24_MoveOrdering ==
    Called =>
        /\ \A i \in ExpandingCalls :
              LET e == last.entered
                  moves == Range(legalmoves(e[i].p))
              IN \A j \in ChildrenOf(e, i) :
                    /\ e[j].p \in moves
                    /\ \A q \in moves \ {e[k].p : k \in {c \in ChildrenOf(e, i) : c < j}} :
                          static_eval_at(e[j].p) >= static_eval_at(q)
        /\ data = last.before

\* a minimizer's node on position 2 with the legal moves <<5, 6>>, 5
\* evaluated -20 and 6 evaluated 25: the move to 6 is expanded first
C24_Witness ==
    /\ Called
    /\ static_eval_at(5) = -20 /\ static_eval_at(6) = 25
    /\ \E i \in ExpandingCalls :
          /\ last.entered[i].p = 2
          /\ ~last.entered[i].maximizing_player
          /\ last.entered[i + 1].fn = "Minimax"
          /\ last.entered[i + 1].p = 6

---------------------------------------------------------------------------
(* pawn_structure on its own: PawnSpec draws at most MaxPawns white pawns  *)
(* from PawnSquares, gives Black the mirror image, and calls               *)
(* pawn_structure for one colour as pawn_score does (Eval.hpp:485-500).    *)

\* a2, b2, c2, d2, h2, b3, d3, g3
PawnSquares == {8, 9, 10, 11, 15, 17, 19, 22}

PawnBoards ==
    {Board([PAWN |-> S, KING |-> {4}],
           [PAWN |-> {MirrorSquare(s) : s \in S}, KING |-> {60}], WHITE, "NONE") :
        S \in {T \in SUBSET PawnSquares : Cardinality(T) <= MaxPawns}}

\* what the call added to backwards_pawns and pawn_chain, and what each
\* turn of its loop over the files added
PawnStructure(c) ==
    /\ observed = NoObservation
    /\ LET d == evaluation.data
           allied_pawns == pieces(d, PAWN, c)
           enemy_pawns == pieces(d, PAWN, Other(c))
           enemy_king == pieces(d, KING, Other(c))
           enemy_pieces == us(d, Other(c))
       IN \E r \in {pawn_structure(evaluation, allied_pawns, enemy_pawns, enemy_king,
                                   enemy_pieces, c)} :
            /\ observed' =
                  [op |-> "pawn_structure", color |-> c,
                   backwards_pawns |-> r.backwards_pawns,
                   pawn_chain |-> r.pawn_chain,
                   files |-> [index \in 0..7 |->
                                 Only({ [backwards |-> f.backwards, chain |-> f.chain]
                                        : f \in {PawnFile(index, allied_pawns, enemy_pawns,
                                                          enemy_king, enemy_pieces, c)} })]]
            /\ evaluation' = r.e
    /\ UNCHANGED <<operand, scores, twin, search_vars>>

PawnInit ==
    /\ SearchIdle
    /\ HelperIdle
    /\ \E b \in PawnBoards : evaluation = Construct(b)
    /\ scores = <<>>
    /\ twin = <<>>

PawnNext == \E c \in {WHITE, BLACK} : PawnStructure(c)

PawnSpec == PawnInit /\ [][PawnNext]_vars

\* the allied pawns that the pawns of a file support: those standing on a
\* square one of them attacks
SupportedBy(index, c) ==
    LET allied == pieces(evaluation.data, PAWN, c)
    IN {t \in allied : \E s \in allied : FileOf(s) = index /\ t \in attacks_pawn(c, s)}

\* C25: when the pawns of a file support exactly one allied pawn, the file
\* adds 1 to chain, and adds 1 to backwards if and only if the adjacent file
\* on the side opposite to the supported pawn holds no allied pawn: for the
\* supported pawn on the left or on the right, on inner files and on the
\* files A and H.
C25_BackwardsPawnOneSupported ==
    observed.op = "pawn_structure" =>
        \A index \in 0..7 :
            Cardinality(SupportedBy(index, observed.color)) = 1 =>
                LET t == CHOOSE x \in SupportedBy(index, observed.color) : TRUE
                    opposite == IF FileOf(t) < index THEN index + 1 ELSE index - 1
                    allied == pieces(evaluation.data, PAWN, observed.color)
                IN /\ observed.files[index].chain = 1
                   /\ observed.files[index].backwards =
                         IF \A s \in allied : FileOf(s) # opposite THEN 1 ELSE 0

---------------------------------------------------------------------------
(* The exchange-safety loops on their own: ExchangeSpec puts at most       *)
(* MaxExchangePieces of the pieces of ExchangePlacements next to the kings *)
(* on e1 and e8 and runs the turn of the loop of pawn_structure,           *)
(* knight_eval, bishop_eval or rook_eval for one pawn, knight, bishop or   *)
(* rook of the board.                                                      *)

\* White: Nc3, b2, e4, Rd4; Black: Bf6, b4, d5, Rh5, Rc8
ExchangePlacements ==
    { <<WHITE, KNIGHT, 18>>, <<WHITE, PAWN, 9>>, <<WHITE, PAWN, 28>>, <<WHITE, ROOK, 27>>,
      <<BLACK, BISHOP, 45>>, <<BLACK, PAWN, 25>>, <<BLACK, PAWN, 35>>, <<BLACK, ROOK, 39>>,
      <<BLACK, ROOK, 58>> }

ExchangeBoards ==
    {Placed(E, WHITE) :
        E \in {F \in SUBSET ExchangePlacements : Cardinality(F) <= MaxExchangePieces}}

\* what the turn of the loop for the piece of kind and colour c on sq adds
\* to the position score of its kind
ExchangeTurn(board, kind, sq, c) ==
    CASE kind = PAWN -> PawnExchange(board, sq, c)
      [] kind = KNIGHT -> KnightExchange(board, sq, c)
      [] kind = BISHOP -> BishopExchange(board, sq, c)
      [] kind = ROOK -> RookExchange(board, sq, c)

ExchangeSafety(kind, sq, c) ==
    /\ observed = NoObservation
    /\ sq \in pieces(evaluation.data, kind, c)
    /\ operand' = {sq}
    /\ observed' = [op |-> "exchange", kind |-> kind, color |-> c,
                    out |-> ExchangeTurn(evaluation.data, kind, sq, c)]
    /\ UNCHANGED <<search_vars, eval_vars>>

ExchangeInit ==
    /\ SearchIdle
    /\ HelperIdle
    /\ \E b \in ExchangeBoards : evaluation = Construct(b)
    /\ scores = <<>>
    /\ twin = <<>>

ExchangeNext ==
    \E kind \in {PAWN, KNIGHT, BISHOP, ROOK}, sq \in Squares, c \in {WHITE, BLACK} :
        ExchangeSafety(kind, sq, c)

ExchangeSpec == ExchangeInit /\ [][ExchangeNext]_vars

\* the kinds of pieces of colour c that attack the piece looked at
AttackingKinds(c) ==
    {k \in Kinds : \E sq \in operand : AttackersOf(evaluation.data, k, c, sq) # {}}
EnemyKinds == AttackingKinds(Other(observed.color))
AlliedKinds == AttackingKinds(observed.color)
Undefended == EnemyKinds # {} /\ AlliedKinds = {}

\* C26: a bishop, knight or rook that is attacked and undefended gets a
\* penalty of the same magnitude as one attacked by an enemy pawn: 75 for a
\* bishop, 50 for a knight, 125 for a rook.
C26_ExchangePenaltyMagnitudes ==
    (observed.op = "exchange" /\ observed.kind \in {BISHOP, KNIGHT, ROOK}) =>
        ((Undefended \/ PAWN \in EnemyKinds) =>
            Abs(observed.out) = CASE observed.kind = BISHOP -> 75
                                  [] observed.kind = KNIGHT -> 50
                                  [] observed.kind = ROOK -> 125)

\* C27: when no earlier clause applies and the enemy attackers are at least
\* as many as the allied ones on the square of a pawn, bishop or knight, the
\* penalty (enemy - allied) x W, W = 10 for a pawn and 15 for a minor piece,
\* is charged to the owner: it lowers the white-positive score for a white
\* piece and raises it by the same amount for a black piece.
C27_GeneralClauseChargedToOwner ==
    (/\ observed.op = "exchange"
     /\ observed.kind \in {PAWN, BISHOP, KNIGHT}
     /\ ~Undefended
     /\ observed.kind # PAWN => PAWN \notin EnemyKinds
     /\ Cardinality(EnemyKinds) >= Cardinality(AlliedKinds)) =>
        observed.out =
            -Sign(observed.color)
              * (Cardinality(EnemyKinds) - Cardinality(AlliedKinds))
              * (IF observed.kind = PAWN THEN 10 ELSE 15)

\* the calls of Minimax that the root loop of the last find_best_move made
RootCalls ==
    SelectSeq(last.entered, LAMBDA x : x.fn = "Minimax" /\ x.ply = Len(last.before) + 1)

\* on a position with more than one legal move the last call ran the
\* iterations d = 1, 2, ..., max_depth in that order, the root loop of
\* iteration d calling Minimax with d - 1 for every legal move; every
\* Minimax call made by Minimax has the depth of its caller less one, never
\* below 0; and a Minimax call of depth 0 hands its position over to
\* QuiescenceSearch
DepthDiscipline ==
       Called =>
          LET e == last.entered
              n == Len(legalmoves(root))
          IN /\ n > 1 =>
                   /\ ~last.early
                   /\ Len(last.iters) = max_depth
                   /\ \A d \in DOMAIN last.iters : last.iters[d].depth = d
                   /\ Len(RootCalls) = max_depth * n
                   /\ \A k \in DOMAIN RootCalls :
                         RootCalls[k].depth = ((k - 1) \div n + 1) - 1
             /\ \A j \in DOMAIN e :
                   e[j].fn = "Minimax" =>
                      /\ e[j].depth >= 0
                      /\ e[j].ply > Len(last.before) + 1 =>
                            /\ e[ParentOf(e, j)].fn = "Minimax"
                            /\ e[j].depth = e[ParentOf(e, j)].depth - 1
                      /\ e[j].depth = 0 =>
                            /\ j < Len(e)
                            /\ e[j + 1].fn = "QuiescenceSearch"
                            /\ e[j + 1].p = e[j].p
                            /\ e[j + 1].ply = e[j].ply
             /\ data = last.before

\* find_best_move, called in this state, returns a move and leaves the
\* board as it found it
Returns ==
    \A indeterminate \in IndeterminateInts :
        \E r \in {FindBestMoveResult(data, transposition_table, max_depth, indeterminate)} :
            /\ r.move \in Positions \cup {NoMove}
            /\ r.st.data = data

\* C28: depth is the stopping criterion: for every max_depth and every tree
\* of the model (every line of noisy moves ends) find_best_move returns
\* from every state it can be called in, and a call keeps the depth
\* discipline: the iterations d = 1 .. max_depth in order when the position
\* has more than one legal move, each Minimax call recursing with depth - 1
\* until depth 0 is handed to QuiescenceSearch.
C28_DepthIsTheStoppingCriterion ==
    /\ Len(rets) < MaxCalls => Returns
    /\ DepthDiscipline

\* a call of max_depth 3 on a root with three legal moves: three
\* iterations, a Minimax call of depth 2 calling one of depth 1 calling one
\* of depth 0, which hands over to QuiescenceSearch
C28_Witness ==
    /\ Called
    /\ max_depth = 3
    /\ Len(legalmoves(root)) = 3
    /\ Len(last.iters) = 3
    /\ \E j \in DOMAIN last.entered :
          /\ j + 3 <= Len(last.entered)
          /\ last.entered[j].fn = "Minimax" /\ last.entered[j].depth = 2
          /\ last.entered[j + 1].fn = "Minimax" /\ last.entered[j + 1].depth = 1
          /\ last.entered[j + 2].fn = "Minimax" /\ last.entered[j + 2].depth = 0
          /\ last.entered[j + 3].fn = "QuiescenceSearch"

---------------------------------------------------------------------------
(* Claim about repeated evaluation, checked under EvalSpec *)

\* C30: the evaluator holds no state between evaluations: static_eval
\* called twice in a row on one Evaluation object, on a position where the
\* game is not over, returns the same score both times.
C30_NoStateBetweenEvaluations ==
    (~GameOver /\ Len(scores) = 2) => scores[2] = scores[1]

=============================================================================
